---------------------------- MODULE Spec2Model ----------------------------
(***************************************************************************)
(* A model of sydes' incremental store (src/sydes/store/sqlite_store.py)   *)
(* and of the analysis run that drives it                                  *)
(* (src/sydes/orchestrator/pipeline.py).                                   *)
(*                                                                         *)
(* Strings are TLA+ strings.  A SHA-1 or SHA-256 digest is represented by  *)
(* the string that was hashed (the hashes are taken to be collision-free); *)
(* where the code orders digests, the order is that of the real digests of *)
(* the model's strings (Sha1Order).                                        *)
(***************************************************************************)
EXTENDS Integers, Sequences, FiniteSets, TLC

VARIABLES
    db,       \* the committed content of .sydes/specs.db, what every reader sees
    tx,       \* the write transaction in flight on a connection, or NoTx
    last,     \* history: the last store call that completed, with the store before it
    passed,   \* history: per path, the routes last passed to replace_routes_for_file
    now,      \* the clock read by _now_ts()
    diff,     \* the value returned by the last diff_scans call
    disk,     \* the repository: per path the file's content and mtime, or absent
    run,      \* the run_analyze call in progress: its position and its locals
    prev,     \* history: the previous completed run_analyze call
    edits,    \* history: how many times the files were written, touched or deleted
    snapped,  \* history: the scan ids that snapshot_current_endpoints has written
    recorded  \* history: per path, the FileStatus last upserted and not removed since

vars == <<db, tx, last, passed, now, diff, disk, run, prev, edits, snapped, recorded>>

(***************************************************************************)
(* Bounds of the model.                                                    *)
(***************************************************************************)
MaxRoutes == 2      \* longest route list passed to replace_routes_for_file
MaxClock == 1       \* the clock runs from 0 to MaxClock
MaxScans == 2       \* scans created in one behaviour
MaxEdits == 1       \* writes, touches and deletions of repository files in one behaviour

(***************************************************************************)
(* Strings of the model and their orders.                                  *)
(***************************************************************************)

\* The strings that occur in ORDER BY columns and in the sort keys of the
\* test generator, in the order of SQLite's BINARY collation (memcmp of the
\* UTF-8 bytes), which is the order of Python's str comparison too.
ByteOrder ==
    << "/B|/c", "/a", "/a/2", "/b", "/b.py|POST|/z", "/c", "/z", "B.py",
       "B__18225e.py", "GET", "GET|/B", "POST", "a.py", "a.py|GET|/b.py", "b.py",
       "g", "get_a", "h" >>

StrRank(s) == CHOOSE i \in 1..Len(ByteOrder) : ByteOrder[i] = s

\* str.upper() on the method strings of the model.
Upper(s) ==
    CASE s = "get" -> "GET"
      [] s = "post" -> "POST"
      [] OTHER -> s

\* _endpoint_id: the SHA-1 of "METHOD|path", represented by that string.
EndpointId(method, http_path) == Upper(method) \o "|" \o http_path

\* The endpoint bases ("METHOD|path") and the EndpointSpec id bases
\* ("METHOD:path:file:handler") of the model in ascending order of their real
\* SHA-1 hex digests (089f.., 0ee4.., 1065.., 3032.., 4135.., 4f68.., 6459..,
\* 6546.., 6c6b.., 6fa5.., a882.., d9b8.., f94d.., fe1d..): the order Python
\* gives the digests.
Sha1Order ==
    << "POST|/b.py|POST|/z", "GET:/a:b.py:h", "POST|/b", "GET:/a:B__18225e.py:h",
       "GET|/b", "POST|/z", "GET:/a/2:b.py:g", "GET|/z", "GET|/B|/c",
       "GET:/a:b.py:g", "POST|/a", "GET|/a", "GET|/b.py|POST|/z",
       "GET:/a:B.py:get_a" >>

Sha1Rank(id) == CHOOSE i \in 1..Len(Sha1Order) : Sha1Order[i] = id

Range(s) == {s[i] : i \in DOMAIN s}

SeqsUpTo(S, n) == UNION {[1..k -> S] : k \in 0..n}

(***************************************************************************)
(* The store: four tables and the AUTOINCREMENT counter of scans.          *)
(***************************************************************************)
EmptyDb ==
    [files |-> {}, routes |-> {}, scans |-> {}, scan_endpoints |-> {}, seq |-> 0]

NoTx == [op |-> "none"]

\* The repository of the model: two paths, each a file or absent.
RepoPaths == {"a.py", "b.py"}

Absent == [content |-> "absent", mtime_ns |-> 0]

\* The two values of st_mtime_ns in the model.
Mtimes == {1, 2}

NoDisk == [p \in RepoPaths |-> Absent]

\* No run_analyze call is in progress.
Idle ==
    [pc |-> "idle", mode |-> "", changed |-> {}, deleted |-> {},
     framework |-> "", candidates |-> <<>>, removes |-> {}, todo |-> <<>>,
     sha |-> "", mtime_ns |-> 0, size_bytes |-> 0,
     files_scanned |-> 0, changed_files |-> 0, inserted_routes |-> 0,
     removed_files |-> 0, scan_id |-> 0,
     replace_calls |-> 0, routes_before |-> {}, files_before |-> {},
     clean |-> FALSE]

NoRun ==
    [done |-> FALSE, mode |-> "", changed |-> {}, deleted |-> {}, clean |-> FALSE,
     scan_id |-> 0, declared |-> {},
     crashed |-> FALSE, crashes |-> 0, crash_pc |-> "", files0 |-> {}, routes0 |-> {}]

\* RouteDecl, the record replace_routes_for_file reads its fields from.
RouteDecl(m, p, h, s, e, l) ==
    [method |-> m, path |-> p, handler_name |-> h,
     start_line |-> s, end_line |-> e, decorator_line |-> l]

\* The route id: SHA-1 of "rel_path|method|path|handler|decorator_line",
\* with the method as passed (not upper-cased).
RouteId(rel_path, r) ==
    rel_path \o "|" \o r.method \o "|" \o r.path \o "|" \o r.handler_name
             \o "|" \o ToString(r.decorator_line)

\* One element of to_insert.
RouteRow(rel_path, r, source, ts) ==
    [id |-> RouteId(rel_path, r),
     rel_path |-> rel_path,
     method |-> Upper(r.method),
     http_path |-> r.path,
     handler_name |-> r.handler_name,
     start_line |-> r.start_line,
     end_line |-> r.end_line,
     decl_line |-> r.decorator_line,
     source |-> source,
     updated_at |-> ts]

(***************************************************************************)
(* SQL statements, each applied to the working copy d of a transaction.    *)
(***************************************************************************)
DeleteRoutes(d, rel_path) ==
    [d EXCEPT !.routes = {r \in @ : r.rel_path # rel_path}]

DeleteFiles(d, rel_path) ==
    [d EXCEPT !.files = {f \in @ : f.rel_path # rel_path}]

\* INSERT OR REPLACE INTO routes: the row with the same id gives way.
InsertOrReplaceRoute(d, row) ==
    [d EXCEPT !.routes = {r \in @ : r.id # row.id} \cup {row}]

\* INSERT INTO files ... ON CONFLICT(rel_path) DO UPDATE SET every other column.
UpsertFile_KeepBoth(d, status) ==
    [d EXCEPT !.files = @ \cup {status}]

UpsertFile(d, status) ==
    [d EXCEPT !.files = {f \in @ : f.rel_path # status.rel_path} \cup {status}]

\* INSERT INTO scans: AUTOINCREMENT gives the next id never used before.
InsertScan(d, ts, git_commit) ==
    [d EXCEPT !.scans = @ \cup {[scan_id |-> d.seq + 1, created_at |-> ts,
                                 git_commit |-> git_commit]},
              !.seq = d.seq + 1]

\* INSERT OR REPLACE INTO scan_endpoints: primary key (scan_id, endpoint_id).
InsertOrReplaceEndpoint(d, row) ==
    [d EXCEPT !.scan_endpoints =
        {e \in @ : ~(e.scan_id = row.scan_id /\ e.endpoint_id = row.endpoint_id)}
        \cup {row}]

Stmt(kind, arg) == [kind |-> kind, arg |-> arg]

Exec(d, stmt) ==
    CASE stmt.kind = "delete_routes" -> DeleteRoutes(d, stmt.arg)
      [] stmt.kind = "delete_files" -> DeleteFiles(d, stmt.arg)
      [] stmt.kind = "insert_route" -> InsertOrReplaceRoute(d, stmt.arg)
      [] stmt.kind = "upsert_file" -> UpsertFile(d, stmt.arg)
      [] stmt.kind = "insert_endpoint" -> InsertOrReplaceEndpoint(d, stmt.arg)
      [] stmt.kind = "insert_scan" -> InsertScan(d, stmt.arg.ts, stmt.arg.git_commit)

RECURSIVE ExecAll(_, _)
ExecAll(d, stmts) ==
    IF stmts = <<>> THEN d ELSE ExecAll(Exec(d, Head(stmts)), Tail(stmts))

(***************************************************************************)
(* The statements of each write call, in the order the call executes them. *)
(***************************************************************************)
RemoveFileStmts_FilesOnly(rel_path) ==
    << Stmt("delete_files", rel_path) >>

RemoveFileStmts(rel_path) ==
    << Stmt("delete_routes", rel_path), Stmt("delete_files", rel_path) >>

ReplaceRoutesStmts_NoDelete(rel_path, routes, source, ts) ==
    [i \in 1..Len(routes) |->
        Stmt("insert_route", RouteRow(rel_path, routes[i], source, ts))]

ReplaceRoutesStmts(rel_path, routes, source, ts) ==
    << Stmt("delete_routes", rel_path) >>
    \o [i \in 1..Len(routes) |->
          Stmt("insert_route", RouteRow(rel_path, routes[i], source, ts))]

UpsertFileStmts(status) ==
    << Stmt("upsert_file", status) >>

\* The calls as functions of the store (each is one transaction).
RemoveFile(d, rel_path) == ExecAll(d, RemoveFileStmts(rel_path))

ReplaceRoutesForFile(d, rel_path, routes, source, ts) ==
    ExecAll(d, ReplaceRoutesStmts(rel_path, routes, source, ts))

UpsertFileStatus(d, status) == ExecAll(d, UpsertFileStmts(status))

\* get_file_status: the set holding the row of rel_path, empty when absent.
GetFileStatus(d, rel_path) == {f \in d.files : f.rel_path = rel_path}

ListTrackedFiles(d) == {f.rel_path : f \in d.files}

RoutesOf(d, rel_path) == {r \in d.routes : r.rel_path = rel_path}


(***************************************************************************)
(* Spec: the store under any sequence of whole calls (each call is one     *)
(* committed transaction), on inputs drawn from small sets.                *)
(***************************************************************************)
StorePaths == {"a.py", "a.py|GET|/b.py"}

AllPaths == {"a.py", "a.py|GET|/b.py", "b.py"}

\* Route declarations passed to the store.  The first two have one route id
\* and differ in end_line; the first under "a.py" and the third under
\* "a.py|GET|/b.py" format to the same id string.
StoreDecls ==
    { RouteDecl("GET", "/b.py|POST|/z", "h", 3, 4, 3),
      RouteDecl("GET", "/b.py|POST|/z", "h", 3, 5, 3),
      RouteDecl("POST", "/z", "h", 3, 4, 3) }

StoreRouteLists == SeqsUpTo(StoreDecls, MaxRoutes)

Shas == {"s1", "s2"}

FileStatus(rel_path, sha, mtime_ns, size_bytes, ts) ==
    [rel_path |-> rel_path, sha256 |-> sha, mtime_ns |-> mtime_ns,
     size_bytes |-> size_bytes, last_scanned_at |-> ts]

NoCall == [op |-> "none", rel_path |-> "", ret |-> 0]
NoRoutes == [called |-> FALSE, routes |-> <<>>, source |-> "", ts |-> 0]
NoDiff == [called |-> FALSE]
NoRecords == [p \in AllPaths |-> {}]

Init ==
    /\ db = EmptyDb
    /\ tx = NoTx
    /\ last = NoCall
    /\ passed = [p \in AllPaths |-> NoRoutes]
    /\ now = 0
    /\ diff = NoDiff
    /\ disk = NoDisk
    /\ run = Idle
    /\ prev = NoRun
    /\ edits = 0
    /\ snapped = {}
    /\ recorded = NoRecords

\* store.replace_routes_for_file(rel_path, routes, source); returns len(to_insert)
CallReplaceRoutes(rel_path, routes, source) ==
    /\ db' = ReplaceRoutesForFile(db, rel_path, routes, source, now)
    /\ last' = [op |-> "replace_routes_for_file", rel_path |-> rel_path,
                ret |-> Len(routes)]
    /\ passed' = [passed EXCEPT ![rel_path] =
                    [called |-> TRUE, routes |-> routes, source |-> source, ts |-> now]]
    /\ UNCHANGED <<tx, now, diff, disk, run, prev, edits, snapped, recorded>>

\* store.remove_file(rel_path)
CallRemoveFile(rel_path) ==
    /\ db' = RemoveFile(db, rel_path)
    /\ last' = [op |-> "remove_file", rel_path |-> rel_path, ret |-> 0]
    /\ passed' = [passed EXCEPT ![rel_path] = NoRoutes]
    /\ recorded' = [recorded EXCEPT ![rel_path] = {}]
    /\ UNCHANGED <<tx, now, diff, disk, run, prev, edits, snapped>>

\* store.upsert_file_status(status)
CallUpsertFileStatus(status) ==
    /\ db' = UpsertFileStatus(db, status)
    /\ last' = [op |-> "upsert_file_status", rel_path |-> status.rel_path, ret |-> 0]
    /\ recorded' = [recorded EXCEPT ![status.rel_path] = {status}]
    /\ UNCHANGED <<tx, passed, now, diff, disk, run, prev, edits, snapped>>

Next ==
    \/ \E p \in StorePaths, rs \in StoreRouteLists :
          CallReplaceRoutes(p, rs, "ast")
    \/ \E p \in StorePaths : CallRemoveFile(p)
    \/ \E p \in StorePaths, sha \in Shas :
          CallUpsertFileStatus(FileStatus(p, sha, 10, 7, now))

Spec == Init /\ [][Next]_vars

(***************************************************************************)
(* C1: after any sequence of store calls, the routes owned by a path are   *)
(* exactly the routes passed to the most recent replace_routes_for_file    *)
(* call for that path (none if the path was removed afterwards or never    *)
(* replaced): one row per route id passed, every row built from a route    *)
(* that was passed, and no call for another path changes them.             *)
(***************************************************************************)
C1_RoutesAreLastReplace ==
    \A p \in StorePaths :
        LET g == passed[p]
            rows == RoutesOf(db, p)
        IN  /\ {r.id : r \in rows} = {RouteId(p, g.routes[i]) : i \in DOMAIN g.routes}
            /\ \A r \in rows : \E i \in DOMAIN g.routes :
                  r = RouteRow(p, g.routes[i], g.source, g.ts)


(***************************************************************************)
(* SpecTx: the write calls statement by statement.  A call opens a         *)
(* connection, its statements run in one implicit transaction on a working *)
(* copy, and leaving the `with` block commits; the process may die, or a   *)
(* statement fail, at any point before that, which rolls the transaction   *)
(* back.  Readers on other connections see db, the committed content.      *)
(* SQLite admits one write transaction at a time.                          *)
(***************************************************************************)
TxPaths == {"a.py", "b.py"}

TxDecls ==
    { RouteDecl("GET", "/a", "h", 1, 2, 1),
      RouteDecl("POST", "/z", "h", 3, 4, 3) }

TxRouteLists == SeqsUpTo(TxDecls, MaxRoutes)

TxCall(op, rel_path, stmts, ret) ==
    [op |-> op, rel_path |-> rel_path, stmts |-> stmts, work |-> db, ret |-> ret]

DoneCall(t, pre) ==
    [op |-> t.op, rel_path |-> t.rel_path, ret |-> t.ret, pre |-> pre]

InitTx ==
    /\ db = EmptyDb
    /\ tx = NoTx
    /\ last = [op |-> "none", rel_path |-> "", ret |-> 0, pre |-> EmptyDb]
    /\ passed = [p \in AllPaths |-> NoRoutes]
    /\ now = 0
    /\ diff = NoDiff
    /\ disk = NoDisk
    /\ run = Idle
    /\ prev = NoRun
    /\ edits = 0
    /\ snapped = {}
    /\ recorded = NoRecords

TxBeginRemoveFile(rel_path) ==
    /\ tx.op = "none"
    /\ tx' = TxCall("remove_file", rel_path, RemoveFileStmts(rel_path), 0)
    /\ UNCHANGED <<db, last, passed, now, diff, disk, run, prev, edits, snapped, recorded>>

TxBeginReplaceRoutes(rel_path, routes, source) ==
    /\ tx.op = "none"
    /\ tx' = TxCall("replace_routes_for_file", rel_path,
                    ReplaceRoutesStmts(rel_path, routes, source, now), Len(routes))
    /\ UNCHANGED <<db, last, passed, now, diff, disk, run, prev, edits, snapped, recorded>>

TxBeginUpsertFileStatus(status) ==
    /\ tx.op = "none"
    /\ tx' = TxCall("upsert_file_status", status.rel_path, UpsertFileStmts(status), 0)
    /\ UNCHANGED <<db, last, passed, now, diff, disk, run, prev, edits, snapped, recorded>>

\* con.execute / one row of con.executemany, inside the transaction
TxExec ==
    /\ tx.op # "none"
    /\ tx.stmts # <<>>
    /\ tx' = [tx EXCEPT !.work = Exec(tx.work, Head(tx.stmts)),
                        !.stmts = Tail(tx.stmts)]
    /\ UNCHANGED <<db, last, passed, now, diff, disk, run, prev, edits, snapped, recorded>>

\* When the connection commits: on leaving the `with` block, that is after
\* the last statement of the call.
CommitPoint_EachStatement(t) == TRUE

CommitPoint_Auto(t) == t.work # db

CommitPoint(t) == t.stmts = <<>>

TxCommit ==
    /\ tx.op # "none"
    /\ CommitPoint(tx)
    /\ db' = tx.work
    /\ IF tx.stmts = <<>>
         THEN /\ tx' = NoTx
              /\ last' = DoneCall(tx, db)
         ELSE UNCHANGED <<tx, last>>
    /\ UNCHANGED <<passed, now, diff, disk, run, prev, edits, snapped, recorded>>

\* The process dies or the call raises before the commit: rollback.
TxAbort ==
    /\ tx.op # "none"
    /\ tx' = NoTx
    /\ UNCHANGED <<db, last, passed, now, diff, disk, run, prev, edits, snapped, recorded>>

NextTx ==
    \/ \E p \in TxPaths : TxBeginRemoveFile(p)
    \/ \E p \in TxPaths, rs \in TxRouteLists : TxBeginReplaceRoutes(p, rs, "ast")
    \/ \E p \in TxPaths, sha \in Shas :
          TxBeginUpsertFileStatus(FileStatus(p, sha, 10, 7, now))
    \/ TxExec
    \/ TxCommit
    \/ TxAbort

SpecTx == InitTx /\ [][NextTx]_vars

(***************************************************************************)
(* C2: remove_file(p) deletes the file row of p and every route row of p   *)
(* in one transaction.  While the call runs, whenever the committed store  *)
(* (what get_file_status and list_routes of any reader return) changes, it *)
(* changes to a store with no file row and no route row of p, and the rows *)
(* of every other path as they were: no committed state has only one of    *)
(* the two deletions.                                                      *)
(***************************************************************************)
C2_RemoveFileAtomic ==
    [][ (tx.op = "remove_file" /\ db' # db) =>
           /\ GetFileStatus(db', tx.rel_path) = {}
           /\ RoutesOf(db', tx.rel_path) = {}
           /\ db'.files = db.files \ GetFileStatus(db, tx.rel_path)
           /\ db'.routes = db.routes \ RoutesOf(db, tx.rel_path) ]_vars

\* remove_file("a.py") has committed on a store that held a file row and a
\* route row of "a.py" and rows of "b.py"; only those of "b.py" are left.
C2_Witness ==
    /\ last.op = "remove_file"
    /\ last.rel_path = "a.py"
    /\ GetFileStatus(last.pre, "a.py") # {}
    /\ RoutesOf(last.pre, "a.py") # {}
    /\ GetFileStatus(db, "a.py") = {}
    /\ RoutesOf(db, "a.py") = {}
    /\ GetFileStatus(db, "b.py") # {}
    /\ RoutesOf(db, "b.py") # {}


(***************************************************************************)
(* Scan snapshots and their difference.                                    *)
(***************************************************************************)

\* A row of scan_endpoints.
EndpointRow(scan_id, method, http_path, rel_path, handler_name, decl_line, source) ==
    [scan_id |-> scan_id,
     endpoint_id |-> EndpointId(method, http_path),
     method |-> method,
     http_path |-> http_path,
     rel_path |-> rel_path,
     handler_name |-> handler_name,
     decl_line |-> decl_line,
     source |-> source]

\* The columns get_scan_endpoints selects.
EndpointDict(e) ==
    [endpoint_id |-> e.endpoint_id, method |-> e.method, http_path |-> e.http_path,
     rel_path |-> e.rel_path, handler_name |-> e.handler_name,
     decl_line |-> e.decl_line, source |-> e.source]

\* get_scan_endpoints: dict endpoint_id -> row dict of the rows WHERE scan_id=?
GetScanEndpoints_AnyScan(d, scan_id) ==
    LET rows == d.scan_endpoints
    IN  [i \in {e.endpoint_id : e \in rows} |->
            EndpointDict(CHOOSE e \in rows : e.endpoint_id = i)]

GetScanEndpoints(d, scan_id) ==
    LET rows == {e \in d.scan_endpoints : e.scan_id = scan_id}
    IN  [i \in {e.endpoint_id : e \in rows} |->
            EndpointDict(CHOOSE e \in rows : e.endpoint_id = i)]

\* sorted() over a set of endpoint ids: ascending hex digests.
RECURSIVE SortedIds_Descending(_)
SortedIds_Descending(ids) ==
    IF ids = {} THEN <<>>
    ELSE LET m == CHOOSE x \in ids : \A y \in ids : Sha1Rank(x) >= Sha1Rank(y)
         IN  <<m>> \o SortedIds_Descending(ids \ {m})

RECURSIVE SortedIds(_)
SortedIds(ids) ==
    IF ids = {} THEN <<>>
    ELSE LET m == CHOOSE x \in ids : \A y \in ids : Sha1Rank(x) <= Sha1Rank(y)
         IN  <<m>> \o SortedIds(ids \ {m})

\* b_ids - a_ids
AddedIds_All(a_ids, b_ids) == b_ids

AddedIds(a_ids, b_ids) == b_ids \ a_ids

\* a_ids - b_ids
RemovedIds(a_ids, b_ids) == a_ids \ b_ids

\* The lists the loop over the common ids appends the pair (ra, rb) to:
\* "moved" and then `continue`, else "handler_changed", else none.
Classify_NoContinue(ra, rb) ==
    (IF ra.rel_path # rb.rel_path THEN {"moved"} ELSE {})
    \cup (IF ra.handler_name # rb.handler_name THEN {"handler_changed"} ELSE {})

Classify_HandlerFirst(ra, rb) ==
    IF ra.handler_name # rb.handler_name THEN {"handler_changed"}
    ELSE IF ra.rel_path # rb.rel_path THEN {"moved"}
    ELSE {}

Classify(ra, rb) ==
    IF ra.rel_path # rb.rel_path THEN {"moved"}
    ELSE IF ra.handler_name # rb.handler_name THEN {"handler_changed"}
    ELSE {}

MovedEntry(i, ra, rb) ==
    [endpoint_id |-> i, method |-> rb.method, http_path |-> rb.http_path,
     from_rel_path |-> ra.rel_path, to_rel_path |-> rb.rel_path,
     from_handler |-> ra.handler_name, to_handler |-> rb.handler_name]

HandlerChangedEntry(i, ra, rb) ==
    [endpoint_id |-> i, method |-> rb.method, http_path |-> rb.http_path,
     rel_path |-> rb.rel_path,
     from_handler |-> ra.handler_name, to_handler |-> rb.handler_name]

\* diff_scans(from_scan_id, to_scan_id)
DiffScans(d, from_scan_id, to_scan_id) ==
    LET a == GetScanEndpoints(d, from_scan_id)
        b == GetScanEndpoints(d, to_scan_id)
        a_ids == DOMAIN a
        b_ids == DOMAIN b
        addedIds == SortedIds(AddedIds(a_ids, b_ids))
        removedIds == SortedIds(RemovedIds(a_ids, b_ids))
        common == SortedIds(a_ids \cap b_ids)
        movedIds == SelectSeq(common, LAMBDA i : "moved" \in Classify(a[i], b[i]))
        changedIds ==
            SelectSeq(common, LAMBDA i : "handler_changed" \in Classify(a[i], b[i]))
    IN  [added |-> [k \in DOMAIN addedIds |-> b[addedIds[k]]],
         removed |-> [k \in DOMAIN removedIds |-> a[removedIds[k]]],
         moved |-> [k \in DOMAIN movedIds |->
                      MovedEntry(movedIds[k], a[movedIds[k]], b[movedIds[k]])],
         handler_changed |-> [k \in DOMAIN changedIds |->
                      HandlerChangedEntry(changedIds[k], a[changedIds[k]],
                                          b[changedIds[k]])]]

\* store.diff_scans(from_scan_id, to_scan_id): reads only.
CallDiffScans(from_scan_id, to_scan_id) ==
    /\ diff' = [called |-> TRUE, from |-> from_scan_id, to |-> to_scan_id,
                result |-> DiffScans(db, from_scan_id, to_scan_id)]
    /\ UNCHANGED <<db, tx, last, passed, now, disk, run, prev, edits, snapped, recorded>>


(***************************************************************************)
(* SpecDiff: diff_scans on every pair of scan ids of a store that holds    *)
(* scans 1 and 2, each with any snapshot over three endpoints.  Scan 3 has *)
(* no row in scans; snapshot_current_endpoints(3) may have written rows    *)
(* for it all the same, because the connections of _connect do not turn    *)
(* foreign keys on.                                                        *)
(***************************************************************************)
DiffRows(scan_id) ==
    { EndpointRow(scan_id, "GET", "/a", "a.py", "h", 1, "ast"),
      EndpointRow(scan_id, "GET", "/a", "a.py", "h", 2, "ast"),
      EndpointRow(scan_id, "GET", "/a", "a.py", "g", 1, "ast"),
      EndpointRow(scan_id, "GET", "/a", "b.py", "h", 1, "ast"),
      EndpointRow(scan_id, "GET", "/a", "b.py", "g", 1, "ast"),
      EndpointRow(scan_id, "POST", "/z", "a.py", "h", 3, "ast"),
      EndpointRow(scan_id, "POST", "/z", "a.py", "g", 3, "ast"),
      EndpointRow(scan_id, "POST", "/z", "b.py", "h", 3, "ast"),
      EndpointRow(scan_id, "GET", "/b", "a.py", "h", 5, "ast"),
      EndpointRow(scan_id, "GET", "/b", "a.py", "h", 5, "unknown") }

\* The snapshots a scan can hold: at most one row per endpoint id.
Snapshots(scan_id) ==
    {S \in SUBSET DiffRows(scan_id) :
        \A x, y \in S : x.endpoint_id = y.endpoint_id => x = y}

OrphanSnapshots ==
    { {}, {EndpointRow(3, "GET", "/a", "a.py", "h", 1, "ast")} }

DiffScanIds == {1, 2, 3}

InitDiff ==
    /\ \E A \in Snapshots(1), B \in Snapshots(2), O \in OrphanSnapshots :
          db = [EmptyDb EXCEPT
                  !.scans = {[scan_id |-> 1, created_at |-> 0, git_commit |-> "none"],
                             [scan_id |-> 2, created_at |-> 0, git_commit |-> "none"]},
                  !.seq = 2,
                  !.scan_endpoints = A \cup B \cup O]
    /\ tx = NoTx
    /\ last = NoCall
    /\ passed = [p \in AllPaths |-> NoRoutes]
    /\ now = 0
    /\ diff = NoDiff
    /\ disk = NoDisk
    /\ run = Idle
    /\ prev = NoRun
    /\ edits = 0
    /\ snapped = {}
    /\ recorded = NoRecords

NextDiff ==
    \E f \in DiffScanIds, t \in DiffScanIds : CallDiffScans(f, t)

SpecDiff == InitDiff /\ [][NextDiff]_vars

\* What the scan_endpoints table holds for a scan id.
RowsOfScan(scan_id) ==
    {EndpointDict(e) : e \in {x \in db.scan_endpoints : x.scan_id = scan_id}}

IdsOfScan(scan_id) == {e.endpoint_id : e \in RowsOfScan(scan_id)}

RowOfScan(scan_id, i) == CHOOSE e \in RowsOfScan(scan_id) : e.endpoint_id = i

IdsOfList(list) == {list[k].endpoint_id : k \in DOMAIN list}

NoRepeats(list) ==
    \A j, k \in DOMAIN list : list[j].endpoint_id = list[k].endpoint_id => j = k

(***************************************************************************)
(* C4: for any two scan ids F and T, diff_scans(F, T).added holds exactly  *)
(* the snapshot rows of T whose endpoint id no row of F has, and .removed  *)
(* exactly the rows of F whose endpoint id no row of T has, each once.     *)
(***************************************************************************)
C4_AddedRemoved ==
    diff.called =>
        /\ Range(diff.result.added) =
              {x \in RowsOfScan(diff.to) : x.endpoint_id \notin IdsOfScan(diff.from)}
        /\ Range(diff.result.removed) =
              {x \in RowsOfScan(diff.from) : x.endpoint_id \notin IdsOfScan(diff.to)}
        /\ NoRepeats(diff.result.added)
        /\ NoRepeats(diff.result.removed)

\* Scan 1 = {GET /a}, scan 2 = {GET /b}: diff(1, 2) adds GET /b, removes GET /a.
C4_Witness ==
    /\ diff.called /\ diff.from = 1 /\ diff.to = 2
    /\ IdsOfScan(1) = {"GET|/a"}
    /\ IdsOfScan(2) = {"GET|/b"}
    /\ IdsOfList(diff.result.added) = {"GET|/b"}
    /\ IdsOfList(diff.result.removed) = {"GET|/a"}

(***************************************************************************)
(* C5: an endpoint id present in both scans is in moved, with the old and  *)
(* new file and the old and new handler, iff the owning file differs,      *)
(* whether or not the handler changed too; it is in handler_changed iff    *)
(* the file is the same and the handler differs; it is in neither when     *)
(* file and handler are equal, whatever the line and the source tag.       *)
(***************************************************************************)
C5_MovedOrHandlerChanged ==
    diff.called =>
        /\ IdsOfList(diff.result.moved) \subseteq IdsOfScan(diff.from) \cap IdsOfScan(diff.to)
        /\ IdsOfList(diff.result.handler_changed)
              \subseteq IdsOfScan(diff.from) \cap IdsOfScan(diff.to)
        /\ \A i \in IdsOfScan(diff.from) \cap IdsOfScan(diff.to) :
              LET ra == RowOfScan(diff.from, i)
                  rb == RowOfScan(diff.to, i)
              IN  /\ (i \in IdsOfList(diff.result.moved)) <=> (ra.rel_path # rb.rel_path)
                  /\ \A k \in DOMAIN diff.result.moved :
                        diff.result.moved[k].endpoint_id = i =>
                            diff.result.moved[k] =
                                [endpoint_id |-> i, method |-> rb.method,
                                 http_path |-> rb.http_path,
                                 from_rel_path |-> ra.rel_path,
                                 to_rel_path |-> rb.rel_path,
                                 from_handler |-> ra.handler_name,
                                 to_handler |-> rb.handler_name]
                  /\ (i \in IdsOfList(diff.result.handler_changed))
                        <=> (ra.rel_path = rb.rel_path
                             /\ ra.handler_name # rb.handler_name)

\* GET /a -> a.py:h in scan 1 and -> b.py:h in scan 2 (file changed, handler the
\* same), POST /z in both with the handler changed in the same file too.
C5_Witness ==
    /\ diff.called /\ diff.from = 1 /\ diff.to = 2
    /\ \E l1, l2 \in {1, 2} :
          /\ EndpointDict(EndpointRow(1, "GET", "/a", "a.py", "h", l1, "ast")) \in RowsOfScan(1)
          /\ EndpointDict(EndpointRow(2, "GET", "/a", "b.py", "h", l2, "ast")) \in RowsOfScan(2)
    /\ IdsOfList(diff.result.moved) = {"GET|/a"}
    /\ diff.result.moved[1].from_rel_path = "a.py"
    /\ diff.result.moved[1].to_rel_path = "b.py"
    /\ diff.result.handler_changed = <<>>

(***************************************************************************)
(* C6: the four lists of diff_scans are pairwise disjoint by endpoint id.  *)
(* An id of both scans is in at most one of moved and handler_changed and  *)
(* in neither added nor removed; an id of one scan only is in exactly one  *)
(* of added and removed; no list names an id twice.                        *)
(***************************************************************************)
C6_ListsDisjoint ==
    diff.called =>
        LET r == diff.result
            A == IdsOfList(r.added)
            R == IdsOfList(r.removed)
            M == IdsOfList(r.moved)
            H == IdsOfList(r.handler_changed)
            inFrom == IdsOfScan(diff.from)
            inTo == IdsOfScan(diff.to)
        IN  /\ A \cap R = {} /\ A \cap M = {} /\ A \cap H = {}
            /\ R \cap M = {} /\ R \cap H = {} /\ M \cap H = {}
            /\ NoRepeats(r.added) /\ NoRepeats(r.removed)
            /\ NoRepeats(r.moved) /\ NoRepeats(r.handler_changed)
            /\ (M \cup H) \subseteq (inFrom \cap inTo)
            /\ (A \cup R) \cap (inFrom \cap inTo) = {}
            /\ A \cup R = (inFrom \ inTo) \cup (inTo \ inFrom)

\* GET /a changed file and handler between scan 1 and scan 2: it is reported
\* as moved only.
C6_Witness ==
    /\ diff.called /\ diff.from = 1 /\ diff.to = 2
    /\ "GET|/a" \in IdsOfScan(1) \cap IdsOfScan(2)
    /\ RowOfScan(1, "GET|/a").rel_path # RowOfScan(2, "GET|/a").rel_path
    /\ RowOfScan(1, "GET|/a").handler_name # RowOfScan(2, "GET|/a").handler_name
    /\ "GET|/a" \in IdsOfList(diff.result.moved)
    /\ "GET|/a" \notin IdsOfList(diff.result.handler_changed)

(***************************************************************************)
(* C7: each of added, removed, moved and handler_changed is in ascending   *)
(* order of endpoint id (the order of the SHA-1 hex digests).              *)
(***************************************************************************)
Ascending(list) ==
    \A j, k \in DOMAIN list :
        j < k => Sha1Rank(list[j].endpoint_id) < Sha1Rank(list[k].endpoint_id)

C7_ListsSorted ==
    diff.called =>
        /\ Ascending(diff.result.added)
        /\ Ascending(diff.result.removed)
        /\ Ascending(diff.result.moved)
        /\ Ascending(diff.result.handler_changed)

\* Two endpoints moved and two were added: POST /z sorts before GET /a.
C7_Witness ==
    /\ diff.called
    /\ Len(diff.result.moved) = 2
    /\ diff.result.moved[1].endpoint_id = "POST|/z"
    /\ diff.result.moved[2].endpoint_id = "GET|/a"

(***************************************************************************)
(* Scans: create_scan and snapshot_current_endpoints.                      *)
(***************************************************************************)

\* ORDER BY method, http_path, rel_path, decl_line: r1 sorts before r2.
KeyLess(r1, r2) ==
    LET k1 == <<StrRank(r1.method), StrRank(r1.http_path), StrRank(r1.rel_path),
                r1.decl_line>>
        k2 == <<StrRank(r2.method), StrRank(r2.http_path), StrRank(r2.rel_path),
                r2.decl_line>>
    IN  \E i \in 1..4 : k1[i] < k2[i] /\ \A j \in 1..(i - 1) : k1[j] = k2[j]

\* The sequences a SELECT ... ORDER BY may return for a set of rows: every
\* order of the rows that the sort key allows (SQL leaves the order of rows
\* with equal keys open).
RECURSIVE SortedOrders(_)
SortedOrders(rows) ==
    IF rows = {} THEN {<<>>}
    ELSE UNION { {<<m>> \o t : t \in SortedOrders(rows \ {m})} :
                 m \in {x \in rows : \A y \in rows : ~KeyLess(y, x)} }

\* list_routes(limit=limit) without filters: the possible results.
ListRoutesAll(d, limit) ==
    {SubSeq(s, 1, IF Len(s) < limit THEN Len(s) ELSE limit) : s \in SortedOrders(d.routes)}

\* The limit snapshot_current_endpoints passes to list_routes.
SnapshotLimit == 1000000

\* eid of a listed row in snapshot_current_endpoints.
SnapshotEndpointId_PerFile(r) ==
    EndpointId(Upper(r.method), r.http_path) \o "|" \o r.rel_path

SnapshotEndpointId(r) == EndpointId(Upper(r.method), r.http_path)

\* The loop of snapshot_current_endpoints: the first row of each eid is kept.
RECURSIVE KeepFirst(_, _)
KeepFirst(rows, seen) ==
    IF rows = <<>> THEN <<>>
    ELSE LET r == Head(rows)
             eid == SnapshotEndpointId(r)
         IN  IF eid \in seen
               THEN KeepFirst(Tail(rows), seen)
               ELSE <<r>> \o KeepFirst(Tail(rows), seen \cup {eid})

\* One tuple of inserts.
SnapshotRow(r, scan_id) ==
    [scan_id |-> scan_id,
     endpoint_id |-> SnapshotEndpointId(r),
     method |-> Upper(r.method),
     http_path |-> r.http_path,
     rel_path |-> r.rel_path,
     handler_name |-> r.handler_name,
     decl_line |-> r.decl_line,
     source |-> r.source]

SnapshotInserts(rows, scan_id) ==
    LET kept == KeepFirst(rows, {})
    IN  [i \in DOMAIN kept |-> SnapshotRow(kept[i], scan_id)]

SnapshotStmts(rows, scan_id) ==
    LET inserts == SnapshotInserts(rows, scan_id)
    IN  [i \in DOMAIN inserts |-> Stmt("insert_endpoint", inserts[i])]

\* create_scan: the store after it; the id returned is its seq.
CreateScan(d, ts, git_commit) == InsertScan(d, ts, git_commit)

(***************************************************************************)
(* SpecScan: route replaces and removals, create_scan and                  *)
(* snapshot_current_endpoints with any scan id, in any order.              *)
(***************************************************************************)
ScanPaths == {"a.py", "b.py"}

\* Under "a.py": two routes of GET /a declared on line 1 with different
\* handlers, and POST /z.  Under "b.py": GET /a again.
ScanDecls(rel_path) ==
    IF rel_path = "a.py"
      THEN { RouteDecl("GET", "/a", "h", 1, 2, 1),
             RouteDecl("GET", "/a", "g", 1, 2, 1),
             RouteDecl("POST", "/z", "h", 3, 4, 3) }
      ELSE { RouteDecl("get", "/a", "k", 1, 2, 1) }

\* The route lists passed for a file: each declaration at most once.
ScanRouteLists(rel_path) ==
    {rs \in SeqsUpTo(ScanDecls(rel_path), MaxRoutes) :
        \A i, j \in DOMAIN rs : rs[i] = rs[j] => i = j}

ScanIdInputs == {1, 2}

InitScan ==
    /\ db = EmptyDb
    /\ tx = NoTx
    /\ last = NoCall
    /\ passed = [p \in AllPaths |-> NoRoutes]
    /\ now = 0
    /\ diff = NoDiff
    /\ disk = NoDisk
    /\ run = Idle
    /\ prev = NoRun
    /\ edits = 0
    /\ snapped = {}
    /\ recorded = NoRecords

\* store.create_scan(git_commit)
CallCreateScan(git_commit) ==
    /\ db.seq < MaxScans
    /\ db' = CreateScan(db, now, git_commit)
    /\ last' = [op |-> "create_scan", rel_path |-> "", ret |-> db.seq + 1]
    /\ UNCHANGED <<tx, passed, now, diff, disk, run, prev, edits, snapped, recorded>>

\* store.snapshot_current_endpoints(scan_id); returns len(inserts)
CallSnapshot(scan_id) ==
    \E rows \in ListRoutesAll(db, SnapshotLimit) :
        /\ db' = ExecAll(db, SnapshotStmts(rows, scan_id))
        /\ last' = [op |-> "snapshot_current_endpoints", rel_path |-> "",
                    ret |-> Len(SnapshotInserts(rows, scan_id)),
                    scan_id |-> scan_id, routes |-> db.routes]
        /\ snapped' = snapped \cup {scan_id}
        /\ UNCHANGED <<tx, passed, now, diff, disk, run, prev, edits, recorded>>

NextScan ==
    \/ \E p \in ScanPaths :
          \E rs \in ScanRouteLists(p) :
              CallReplaceRoutes(p, rs, "ast")
    \/ \E p \in ScanPaths : CallRemoveFile(p)
    \/ CallCreateScan("none")
    \/ \E s \in ScanIdInputs : CallSnapshot(s)

SpecScan == InitScan /\ [][NextScan]_vars

(***************************************************************************)
(* C9: in every reachable state a scan holds at most one snapshot row per  *)
(* endpoint, and the endpoint id is a function of the upper-cased method   *)
(* and the URL path alone: routes with the same method and path in         *)
(* different files, or with different handlers, give one row per scan.     *)
(***************************************************************************)
C9_OneSnapshotPerEndpoint ==
    \A x, y \in db.scan_endpoints :
        (Upper(x.method) = Upper(y.method) /\ x.http_path = y.http_path) =>
            /\ x.endpoint_id = y.endpoint_id
            /\ x.scan_id = y.scan_id => x = y

\* A snapshot was taken of a route table that holds GET /a in a.py and in
\* b.py, and under two handlers: the scan has one row for it.
C9_Witness ==
    /\ last.op = "snapshot_current_endpoints"
    /\ \E r1, r2, r3 \in last.routes :
          /\ r1.method = "GET" /\ r2.method = "GET" /\ r3.method = "GET"
          /\ r1.http_path = "/a" /\ r2.http_path = "/a" /\ r3.http_path = "/a"
          /\ r1.rel_path = "a.py" /\ r2.rel_path = "b.py" /\ r3.rel_path = "a.py"
          /\ r1.handler_name # r3.handler_name
    /\ Cardinality({e \in db.scan_endpoints :
                      e.scan_id = last.scan_id /\ e.method = "GET"
                      /\ e.http_path = "/a"}) = 1

(***************************************************************************)
(* C10: when several routes of the table share an endpoint id, the         *)
(* snapshot keeps exactly one of them, and it is the one that comes first  *)
(* when the routes are ordered by method, URL path, file path and          *)
(* declaration line: the order decides the survivor, so every route of     *)
(* the endpoint that no other one precedes is the row that was kept.       *)
(***************************************************************************)
C10_FirstInOrderSurvives ==
    last.op = "snapshot_current_endpoints" =>
        \A r \in last.routes :
            LET same == {q \in last.routes :
                            SnapshotEndpointId(q) = SnapshotEndpointId(r)}
                kept == {e \in db.scan_endpoints :
                            e.scan_id = last.scan_id
                            /\ e.endpoint_id = SnapshotEndpointId(r)}
            IN  /\ Cardinality(kept) = 1
                /\ (\A q \in same : ~KeyLess(q, r)) =>
                       kept = {SnapshotRow(r, last.scan_id)}

(***************************************************************************)
(* C8: a scan id with no row in scans is read as an empty snapshot:        *)
(* get_scan_endpoints returns the empty dict for it, diff_scans(absent, T) *)
(* reports every endpoint of T as added, diff_scans(F, absent) every       *)
(* endpoint of F as removed, and moved and handler_changed are empty.      *)
(***************************************************************************)
ScanExists(scan_id) == \E sc \in db.scans : sc.scan_id = scan_id

C8_AbsentScanIsEmpty ==
    \A absent, other \in ScanIdInputs :
        ~ScanExists(absent) =>
            /\ DOMAIN GetScanEndpoints(db, absent) = {}
            /\ LET r == DiffScans(db, absent, other)
               IN  /\ Range(r.added) = RowsOfScan(other)
                   /\ r.removed = <<>>
                   /\ r.moved = <<>>
                   /\ r.handler_changed = <<>>
            /\ LET r == DiffScans(db, other, absent)
               IN  /\ Range(r.removed) = RowsOfScan(other)
                   /\ r.added = <<>>
                   /\ r.moved = <<>>
                   /\ r.handler_changed = <<>>

(***************************************************************************)
(* The repository on disk.  A file's content is one of these texts:        *)
(*   "f1"  from fastapi import FastAPI / app = FastAPI() /                 *)
(*         @app.get("/a") def h                                            *)
(*   "f2"  from fastapi import APIRouter / router = APIRouter() /          *)
(*         @router.get("/a") def g / @router.post("/z") def h              *)
(*   "k"   from flask import Flask / app = Flask(__name__) /               *)
(*         @app.route("/a") def h                                          *)
(*   "m"   from flask import Flask / app = Flask(__name__) /               *)
(*         @app.post("/z") def h                                           *)
(*   "p"   x = 1                                                           *)
(*   "c"   from fastapi import FastAPI / app = FastAPI() /                 *)
(*         @app.get("/b.py|POST|/z") def h, the decorator on line 8        *)
(* The SHA-256 of a content is represented by the content's name.          *)
(***************************************************************************)
Contents == {"f1", "f2", "k"}

\* The needles of scanner.py and framework_detector.py that a text contains.
Markers(c) ==
    CASE c = "f1" -> {"from fastapi import", "FastAPI(", "@app."}
      [] c = "f2" -> {"from fastapi import", "APIRouter", "@router.", "route"}
      [] c = "k"  -> {"from flask import", "Flask(", "@app.route", "@app.", "route"}
      [] c = "m"  -> {"from flask import", "Flask(", "@app."}
      [] c = "c"  -> {"from fastapi import", "FastAPI(", "@app."}
      [] OTHER    -> {}

\* st_size of a file with the content.
SizeBytes(c) ==
    CASE c = "f1" -> 82
      [] c = "f2" -> 134
      [] c = "k"  -> 86
      [] c = "m"  -> 85
      [] c = "p"  -> 6
      [] c = "c"  -> 97
      [] OTHER    -> 0

\* extract_routes_from_file: the decorators app.get / router.post ... of the
\* text, sorted by decorator line; [] for a file that cannot be read.
ExtractRoutesFromFile(f) ==
    CASE f.content = "f1" -> << RouteDecl("GET", "/a", "h", 5, 6, 4) >>
      [] f.content = "f2" -> << RouteDecl("GET", "/a", "g", 5, 6, 4),
                                RouteDecl("POST", "/z", "h", 9, 10, 8) >>
      [] f.content = "m"  -> << RouteDecl("POST", "/z", "h", 5, 6, 4) >>
      [] f.content = "c"  -> << RouteDecl("GET", "/b.py|POST|/z", "h", 9, 10, 8) >>
      [] OTHER            -> << >>

Exists(f) == f.content # "absent"

\* _file_contains_any(path, needles); False for a file that cannot be read.
FileContainsAny(f, needles) == Markers(f.content) \cap needles # {}

\* os.walk visits the files of a directory in the order of the directory,
\* and then its subdirectories: b.py of the directory "a.py|GET|" comes last.
WalkOrder == << "a.py", "b.py", "a.py|GET|/b.py" >>

\* scan_python_files(repo_path, max_files=None) over the files of dk
ScanPythonFiles(dk) == SelectSeq(WalkOrder, LAMBDA p : p \in DOMAIN dk /\ Exists(dk[p]))

Frameworks == << "fastapi", "flask", "django" >>

DetectNeedles(fw) ==
    CASE fw = "fastapi" -> {"from fastapi import", "FastAPI(", "APIRouter"}
      [] fw = "flask"   -> {"from flask import", "Flask(", "@app.route", "Blueprint("}
      [] fw = "django"  -> {"from django.urls", "urlpatterns", "path(", "re_path("}

DetectWeight(fw) == IF fw = "fastapi" THEN 3 ELSE 2

\* detect_python_framework: the framework of the highest score; among equal
\* scores Counter.most_common gives the one that was counted first.
DetectPythonFramework(dk, py_files) ==
    LET Hits(k) == {i \in DOMAIN py_files :
                       FileContainsAny(dk[py_files[i]], DetectNeedles(Frameworks[k]))}
        Score(k) == DetectWeight(Frameworks[k]) * Cardinality(Hits(k))
        Min(S) == CHOOSE i \in S : \A j \in S : i <= j
        CountedAt(k) == 3 * Min(Hits(k)) + k
        scored == {k \in DOMAIN Frameworks : Score(k) > 0}
    IN  IF scored = {} THEN "unknown"
        ELSE Frameworks[CHOOSE k \in scored :
                          \A j \in scored \ {k} :
                              \/ Score(j) < Score(k)
                              \/ Score(j) = Score(k) /\ CountedAt(k) < CountedAt(j)]

CandidateNeedles(framework_hint) ==
    CASE framework_hint = "fastapi" ->
             {"from fastapi import", "FastAPI(", "APIRouter", "@app.", "@router.",
              "add_api_route"}
      [] framework_hint = "flask" ->
             {"from flask import", "Flask(", "@app.route", "Blueprint("}
      [] framework_hint = "django" ->
             {"from django.urls", "path(", "re_path(", "urlpatterns", "django.http"}
      [] OTHER ->
             {"@app.", "route", "FastAPI(", "Flask(", "django.urls"}

\* select_candidate_api_files(py_files, framework_hint)
SelectCandidateApiFiles(dk, py_files, framework_hint) ==
    SelectSeq(py_files, LAMBDA p : FileContainsAny(dk[p], CandidateNeedles(framework_hint)))

\* sorted(changed_rel & cand_rel)
RECURSIVE SortedPaths(_)
SortedPaths(S) ==
    IF S = {} THEN <<>>
    ELSE LET m == CHOOSE x \in S : \A y \in S : StrRank(x) <= StrRank(y)
         IN  <<m>> \o SortedPaths(S \ {m})

\* The "Dedup per file" loop of run_analyze.
RECURSIVE DedupRoutes(_, _)
DedupRoutes(routes, seen) ==
    IF routes = <<>> THEN <<>>
    ELSE LET r == Head(routes)
             key == <<r.method, r.path, r.handler_name, r.decorator_line>>
         IN  IF key \in seen
               THEN DedupRoutes(Tail(routes), seen)
               ELSE <<r>> \o DedupRoutes(Tail(routes), seen \cup {key})

\* The test "prev and prev.sha256 == sha" that skips a file.
SameAsRecorded_Never(status, sha, mtime_ns, size_bytes) == FALSE

SameAsRecorded_WithMtime(status, sha, mtime_ns, size_bytes) ==
    \E f \in status : f.sha256 = sha /\ f.mtime_ns = mtime_ns

SameAsRecorded(status, sha, mtime_ns, size_bytes) ==
    \E f \in status : f.sha256 = sha

(***************************************************************************)
(* run_analyze, one step per store call.  A run reads the repository when  *)
(* it starts (scan, detection, selection) and again for each file it       *)
(* processes; the files may be edited, touched and deleted and the clock   *)
(* may advance between any two steps.                                      *)
(***************************************************************************)
\* What git diff --name-status gives: both files modified, or one modified
\* and the other deleted.
GitOutputs ==
    { [changed |-> {"a.py", "b.py"}, deleted |-> {}],
      [changed |-> {"a.py"}, deleted |-> {"b.py"}] }

\* The file at a path when the behaviour starts.
InitFiles(rel_path) ==
    {Absent} \cup [content : IF rel_path = "a.py" THEN Contents ELSE {"f1"},
                   mtime_ns : {1}]

\* The path whose file is written, touched or deleted during the behaviour.
EditPaths == {"a.py"}

InitRun ==
    /\ db = EmptyDb
    /\ tx = NoTx
    /\ last = NoCall
    /\ passed = [p \in AllPaths |-> NoRoutes]
    /\ now = 0
    /\ diff = NoDiff
    /\ disk \in {d \in [RepoPaths -> UNION {InitFiles(p) : p \in RepoPaths}] :
                  \A p \in RepoPaths : d[p] \in InitFiles(p)}
    /\ run = Idle
    /\ prev = NoRun
    /\ edits = 0
    /\ snapped = {}
    /\ recorded = NoRecords

\* Lines 96-133: scan, detection, selection, and the files to remove and to
\* process.  git_mode with the output of git diff --name-status, or full mode.
RunStart(git_mode, git) ==
    /\ run.pc = "idle"
    /\ db.seq < MaxScans
    /\ LET py_files == ScanPythonFiles(disk)
           framework == DetectPythonFramework(disk, py_files)
           candidates == SelectCandidateApiFiles(disk, py_files, framework)
       IN  run' = [Idle EXCEPT
                     !.pc = "remove",
                     !.mode = IF git_mode THEN "git" ELSE "full",
                     !.changed = IF git_mode THEN git.changed ELSE {},
                     !.deleted = IF git_mode THEN git.deleted ELSE {},
                     !.framework = framework,
                     !.candidates = candidates,
                     !.files_scanned = Len(py_files),
                     !.removes = IF git_mode THEN git.deleted
                                 ELSE ListTrackedFiles(db) \ Range(candidates),
                     !.todo = IF git_mode
                                THEN SortedPaths(git.changed \cap Range(candidates))
                                ELSE candidates,
                     !.routes_before = db.routes,
                     !.files_before = db.files,
                     !.clean = TRUE]
    /\ UNCHANGED <<db, tx, last, passed, now, diff, disk, prev, edits, snapped, recorded>>

\* Lines 113-115 and 125-127: store.remove_file for one stale or deleted path.
RunRemove_CountOnly ==
    /\ run.pc = "remove"
    /\ \E d \in run.removes :
          /\ db' = db
          /\ run' = [run EXCEPT !.removes = @ \ {d}, !.removed_files = @ + 1]
    /\ UNCHANGED <<tx, last, passed, now, diff, disk, prev, edits, snapped, recorded>>

RunRemove ==
    /\ run.pc = "remove"
    /\ \E d \in run.removes :
          /\ db' = RemoveFile(db, d)
          /\ run' = [run EXCEPT !.removes = @ \ {d}, !.removed_files = @ + 1]
    /\ UNCHANGED <<tx, last, passed, now, diff, disk, prev, edits, snapped, recorded>>

\* Lines 137-145: the next file of the loop: removed when it is not there.
RunCheck ==
    /\ run.pc \in {"remove", "check"}
    /\ run.removes = {}
    /\ run.todo # <<>>
    /\ LET rel_path == Head(run.todo)
       IN  IF ~Exists(disk[rel_path])
             THEN /\ db' = RemoveFile(db, rel_path)
                  /\ run' = [run EXCEPT !.pc = "check", !.todo = Tail(@),
                                        !.removed_files = @ + 1]
             ELSE /\ run' = [run EXCEPT !.pc = "fingerprint"]
                  /\ db' = db
    /\ UNCHANGED <<tx, last, passed, now, diff, disk, prev, edits, snapped, recorded>>

\* Lines 147-152: compute_file_fingerprint (path.stat() and read_bytes()
\* raise when the file has gone since line 141; nothing catches it, and
\* run_analyze ends with the exception), then the file is skipped when its
\* hash is the recorded one, else counted as changed.
RunFingerprint ==
    /\ run.pc = "fingerprint"
    /\ LET rel_path == Head(run.todo)
           f == disk[rel_path]
           sha == f.content
       IN  IF ~Exists(f)
             THEN /\ run' = Idle
                  /\ last' = [op |-> "raise", rel_path |-> rel_path, ret |-> 0]
             ELSE IF SameAsRecorded(GetFileStatus(db, rel_path), sha, f.mtime_ns,
                                    SizeBytes(f.content))
             THEN /\ run' = [run EXCEPT !.pc = "check", !.todo = Tail(@)]
                  /\ last' = last
             ELSE /\ run' = [run EXCEPT !.pc = "replace", !.sha = sha,
                                        !.mtime_ns = f.mtime_ns,
                                        !.size_bytes = SizeBytes(f.content),
                                        !.changed_files = @ + 1]
                  /\ last' = last
    /\ UNCHANGED <<db, tx, passed, now, diff, disk, prev, edits, snapped, recorded>>

\* Lines 154-171: extraction, dedup and store.replace_routes_for_file.
RunReplace ==
    /\ run.pc = "replace"
    /\ LET rel_path == Head(run.todo)
           routes == IF run.framework = "fastapi"
                       THEN DedupRoutes(ExtractRoutesFromFile(disk[rel_path]), {})
                       ELSE <<>>
           source == IF run.framework = "fastapi" THEN "ast" ELSE "unknown"
       IN  /\ db' = ReplaceRoutesForFile(db, rel_path, routes, source, now)
           /\ run' = [run EXCEPT !.pc = "upsert",
                                 !.inserted_routes = @ + Len(routes),
                                 !.replace_calls = @ + 1]
    /\ UNCHANGED <<tx, last, passed, now, diff, disk, prev, edits, snapped, recorded>>

\* Lines 172-180: store.upsert_file_status with the fingerprint of line 147.
RunUpsert ==
    /\ run.pc = "upsert"
    /\ db' = UpsertFileStatus(db, FileStatus(Head(run.todo), run.sha, run.mtime_ns,
                                             run.size_bytes, now))
    /\ run' = [run EXCEPT !.pc = "check", !.todo = Tail(@),
                          !.sha = "", !.mtime_ns = 0, !.size_bytes = 0]
    /\ UNCHANGED <<tx, last, passed, now, diff, disk, prev, edits, snapped, recorded>>

\* Line 190: store.create_scan.
RunCreateScan_Early ==
    /\ run.pc \in {"remove", "check"}
    /\ db' = CreateScan(db, now, "none")
    /\ run' = [run EXCEPT !.pc = "snapshot", !.scan_id = db.seq + 1]
    /\ UNCHANGED <<tx, last, passed, now, diff, disk, prev, edits, snapped, recorded>>

RunCreateScan ==
    /\ run.pc \in {"remove", "check"}
    /\ run.removes = {}
    /\ run.todo = <<>>
    /\ db' = CreateScan(db, now, "none")
    /\ run' = [run EXCEPT !.pc = "snapshot", !.scan_id = db.seq + 1]
    /\ UNCHANGED <<tx, last, passed, now, diff, disk, prev, edits, snapped, recorded>>

\* The endpoints that the files of the repository declare: the ids of the
\* routes the extractor yields for the candidate files, under the framework
\* detected for the repository.
Declared(dk) ==
    LET py_files == ScanPythonFiles(dk)
        framework == DetectPythonFramework(dk, py_files)
        candidates == SelectCandidateApiFiles(dk, py_files, framework)
    IN  IF framework # "fastapi" THEN {}
        ELSE UNION { { EndpointId(r.method, r.path) :
                          r \in Range(ExtractRoutesFromFile(dk[p])) } :
                     p \in Range(candidates) }

\* Whether the run repeats the previous completed call on files whose content
\* did not change since that call started.
Rerun ==
    /\ prev.done /\ prev.clean
    /\ prev.mode = run.mode
    /\ prev.changed = run.changed
    /\ prev.deleted = run.deleted

\* Lines 191-207: store.snapshot_current_endpoints and the AnalyzeResult.
RunSnapshot ==
    /\ run.pc = "snapshot"
    /\ \E rows \in ListRoutesAll(db, SnapshotLimit) :
          db' = ExecAll(db, SnapshotStmts(rows, run.scan_id))
    /\ last' = [op |-> "run_analyze", rel_path |-> "", ret |-> run.scan_id,
                mode |-> run.mode,
                framework |-> run.framework,
                files_scanned |-> run.files_scanned,
                candidate_files |-> run.candidates,
                changed_files |-> run.changed_files,
                inserted_routes |-> run.inserted_routes,
                removed_files |-> run.removed_files,
                rerun |-> Rerun,
                after_crash |-> IF prev.crashed /\ prev.clean THEN prev.crash_pc ELSE ""]
    /\ prev' = [done |-> TRUE, mode |-> run.mode, changed |-> run.changed,
                deleted |-> run.deleted, clean |-> run.clean,
                scan_id |-> run.scan_id,
                declared |-> IF run.mode = "full" /\ run.clean THEN {Declared(disk)} ELSE {},
                crashed |-> FALSE, crashes |-> prev.crashes, crash_pc |-> "",
                files0 |-> {}, routes0 |-> {}]
    /\ run' = Idle
    /\ snapped' = snapped \cup {run.scan_id}
    /\ UNCHANGED <<tx, passed, now, diff, disk, edits, recorded>>

\* The file is written with another content, created or deleted.
EditFile(rel_path, content) ==
    /\ edits < MaxEdits
    /\ disk[rel_path].content # content
    /\ \E m \in Mtimes :
          /\ m # disk[rel_path].mtime_ns
          /\ disk' = [disk EXCEPT ![rel_path] =
                         IF content = "absent" THEN Absent
                         ELSE [content |-> content, mtime_ns |-> m]]
    /\ run' = [run EXCEPT !.clean = FALSE]
    /\ prev' = [prev EXCEPT !.clean = FALSE]
    /\ edits' = edits + 1
    /\ UNCHANGED <<db, tx, last, passed, now, diff, snapped, recorded>>

\* The file's mtime changes, its content does not.
TouchFile(rel_path) ==
    /\ edits < MaxEdits
    /\ Exists(disk[rel_path])
    /\ \E m \in Mtimes :
          /\ m # disk[rel_path].mtime_ns
          /\ disk' = [disk EXCEPT ![rel_path].mtime_ns = m]
    /\ edits' = edits + 1
    /\ UNCHANGED <<db, tx, last, passed, now, diff, run, prev, snapped, recorded>>

\* The clock of _now_ts() advances; the model lets it advance between runs.
Tick ==
    /\ run.pc = "idle"
    /\ now < MaxClock
    /\ now' = now + 1
    /\ UNCHANGED <<db, tx, last, passed, diff, disk, run, prev, edits, snapped, recorded>>

\* The clock advances after a run has completed: timestamps are compared
\* only with each other, so the time that passes before the first write and
\* a second advance without a write in between are not observable.
TickBetweenRuns ==
    /\ now < db.seq
    /\ Tick

NextRun ==
    \/ RunStart(FALSE, [changed |-> {}, deleted |-> {}])
    \/ \E g \in GitOutputs : RunStart(TRUE, g)
    \/ RunRemove
    \/ RunCheck
    \/ RunFingerprint
    \/ RunReplace
    \/ RunUpsert
    \/ RunCreateScan
    \/ RunSnapshot
    \/ \E p \in EditPaths : \E c \in Contents \cup {"absent"} : EditFile(p, c)
    \/ \E p \in EditPaths : TouchFile(p)
    \/ TickBetweenRuns

SpecRun == InitRun /\ [][NextRun]_vars

C11_SnapshotNeverMutated ==
    [][ \A s \in snapped : GetScanEndpoints(db', s) = GetScanEndpoints(db, s) ]_vars

(***************************************************************************)
(* SpecHandles: create_scan called through two store handles on the same   *)
(* database file, statement by statement.  Each handle has its own         *)
(* connection; here tx maps a handle to the call and transaction of its    *)
(* connection.  SQLite lets one connection write at a time: the INSERT of  *)
(* a second connection waits, and fails with "database is locked" when the *)
(* wait times out.                                                         *)
(***************************************************************************)
Handles == {"h1", "h2"}

NoHandleCall == [pc |-> "idle", work |-> EmptyDb, rowid |-> 0, earlier |-> {}]

NoScanCall ==
    [op |-> "none", rel_path |-> "", ret |-> 0, handle |-> "", earlier |-> {},
     returned |-> {}]

InitHandles ==
    /\ db = EmptyDb
    /\ tx = [h \in Handles |-> NoHandleCall]
    /\ last = NoScanCall
    /\ passed = [p \in AllPaths |-> NoRoutes]
    /\ now = 0
    /\ diff = NoDiff
    /\ disk = NoDisk
    /\ run = Idle
    /\ prev = NoRun
    /\ edits = 0
    /\ snapped = {}
    /\ recorded = NoRecords

\* No other connection holds the write lock.
WriteLockFree(h) == \A o \in Handles \ {h} : tx[o].pc \notin {"select", "commit"}

\* SELECT last_insert_rowid(): the rowid of the last INSERT of this connection.
LastInsertRowid_Committed(h) == db.seq

LastInsertRowid(h) == tx[h].work.seq

\* create_scan is called on the handle; `earlier` remembers the ids that
\* create_scan calls have returned before this call started.
HandleCall(h) ==
    /\ tx[h].pc = "idle"
    /\ tx' = [tx EXCEPT ![h] = [NoHandleCall EXCEPT !.pc = "insert",
                                                   !.earlier = last.returned]]
    /\ UNCHANGED <<db, last, passed, now, diff, disk, run, prev, edits, snapped, recorded>>

\* INSERT INTO scans(created_at, git_commit): takes the write lock.
HandleInsert(h, git_commit) ==
    /\ tx[h].pc = "insert"
    /\ WriteLockFree(h)
    /\ db.seq < MaxScans
    /\ tx' = [tx EXCEPT ![h].pc = "select",
                        ![h].work = InsertScan(db, now, git_commit)]
    /\ UNCHANGED <<db, last, passed, now, diff, disk, run, prev, edits, snapped, recorded>>

\* SELECT last_insert_rowid() AS id
HandleSelect(h) ==
    /\ tx[h].pc = "select"
    /\ tx' = [tx EXCEPT ![h].pc = "commit", ![h].rowid = LastInsertRowid(h)]
    /\ UNCHANGED <<db, last, passed, now, diff, disk, run, prev, edits, snapped, recorded>>

\* Leaving the with block: commit, the lock is released.
HandleCommit(h) ==
    /\ tx[h].pc = "commit"
    /\ db' = tx[h].work
    /\ tx' = [tx EXCEPT ![h].pc = "return"]
    /\ UNCHANGED <<last, passed, now, diff, disk, run, prev, edits, snapped, recorded>>

\* return int(scan_id)
HandleReturn(h) ==
    /\ tx[h].pc = "return"
    /\ last' = [op |-> "create_scan", rel_path |-> "", ret |-> tx[h].rowid,
                handle |-> h, earlier |-> tx[h].earlier,
                returned |-> last.returned \cup {tx[h].rowid}]
    /\ tx' = [tx EXCEPT ![h] = NoHandleCall]
    /\ UNCHANGED <<db, passed, now, diff, disk, run, prev, edits, snapped, recorded>>

\* The call raises (the wait for the lock timed out) or the process dies
\* before the commit: the transaction is rolled back, no id is returned.
HandleFail(h) ==
    /\ tx[h].pc \in {"insert", "select", "commit"}
    /\ tx' = [tx EXCEPT ![h] = NoHandleCall]
    /\ UNCHANGED <<db, last, passed, now, diff, disk, run, prev, edits, snapped, recorded>>

NextHandles ==
    \/ \E h \in Handles : HandleCall(h)
    \/ \E h \in Handles : \E c \in {"none", "c1"} : HandleInsert(h, c)
    \/ \E h \in Handles : HandleSelect(h)
    \/ \E h \in Handles : HandleCommit(h)
    \/ \E h \in Handles : HandleReturn(h)
    \/ \E h \in Handles : HandleFail(h)
    \/ Tick

SpecHandles == InitHandles /\ [][NextHandles]_vars

(***************************************************************************)
(* C12: the id a create_scan call returns is greater than every id that a  *)
(* create_scan call on any handle returned before this call started, no    *)
(* two calls return the same id, and the id is that of a committed row of  *)
(* scans, the one this call inserted.                                      *)
(***************************************************************************)
C12_ScanIdsIncrease ==
    /\ last.op = "create_scan" =>
          /\ \A e \in last.earlier : e < last.ret
          /\ \E sc \in db.scans : sc.scan_id = last.ret
    /\ \A h \in Handles :
          tx[h].pc = "return" =>
              /\ tx[h].rowid \notin last.returned
              /\ \A e \in tx[h].earlier : e < tx[h].rowid
              /\ tx[h].work.scans \ db.scans = {}
              /\ \E sc \in tx[h].work.scans : sc.scan_id = tx[h].rowid /\ sc.scan_id = tx[h].work.seq
    /\ \A a, b \in db.scans : a.scan_id = b.scan_id => a = b

\* Both handles have returned from create_scan; the call of h2 started after
\* an earlier call had returned 1, and returned 2.
C12_Witness ==
    /\ last.op = "create_scan"
    /\ last.handle = "h2"
    /\ last.earlier = {1}
    /\ last.ret = 2
    /\ last.returned = {1, 2}

(***************************************************************************)
(* Opening the store: _init_db_and_migrate, statement by statement.        *)
(*                                                                         *)
(* Here db is the persisted schema and content of specs.db: per table its  *)
(* columns (none when the table does not exist) and its rows, and the      *)
(* value of meta's schema_version row ("unset" when there is none).  Rows  *)
(* carry their key and path columns and, for files, the hash.  Indexes are *)
(* left out: creating one changes no table.                                *)
(*                                                                         *)
(* The connection is Python's sqlite3 in its default isolation level: an   *)
(* INSERT opens a transaction when none is open; CREATE, DROP and ALTER    *)
(* are committed at once when no transaction is open and belong to the     *)
(* open transaction otherwise.  Leaving the with block commits, an         *)
(* exception rolls the open transaction back, and so does the death of the *)
(* process.                                                                *)
(***************************************************************************)
Tables ==
    {"meta", "files", "routes", "files_new", "routes_new", "scans", "scan_endpoints"}

NoTables ==
    [cols |-> [t \in Tables |-> {}], rows |-> [t \in Tables |-> {}],
     version |-> "unset"]

\* The columns of the 1.0 layout that the migration reads.
Columns_1_0 ==
    [files |-> {"path", "sha256"}, routes |-> {"id", "file_path"}]

\* The columns of the CREATE TABLE statements of the current code.
Columns_1_2 ==
    [meta |-> {"key", "value"},
     files |-> {"rel_path", "sha256"},
     routes |-> {"id", "rel_path"},
     files_new |-> {"rel_path", "sha256"},
     routes_new |-> {"id", "rel_path"},
     scans |-> {"scan_id"},
     scan_endpoints |-> {"scan_id", "endpoint_id"}]

\* Paths stored by the 1.0 layout.  The repository root is /repo; the second
\* path names the same file as the first, the third lies outside the root.
LegacyPaths == {"/repo/a.py", "/repo/sub/../a.py", "/elsewhere/x.py"}

\* str(Path(path).resolve().relative_to(self.repo_root)), and str(path) when
\* that raises.
Relativize(path) ==
    CASE path = "/repo/a.py" -> "a.py"
      [] path = "/repo/sub/../a.py" -> "a.py"
      [] OTHER -> path

\* Whether the path can be expressed relative to the repository root.
InsideRoot(path) == path \in {"/repo/a.py", "/repo/sub/../a.py"}

LegacyFileRows ==
    {[path |-> "/repo/a.py", sha256 |-> "f1"],
     [path |-> "/repo/sub/../a.py", sha256 |-> "f2"],
     [path |-> "/elsewhere/x.py", sha256 |-> "k"]}

LegacyRouteRows ==
    {[id |-> "r1", file_path |-> "/repo/a.py"],
     [id |-> "r2", file_path |-> "/elsewhere/x.py"]}

\* CREATE TABLE IF NOT EXISTS t (cols)
CreateTableIfNotExists_Recreate(d, t, cols) ==
    [d EXCEPT !.cols[t] = cols, !.rows[t] = {}]

CreateTableIfNotExists(d, t, cols) ==
    IF d.cols[t] # {} THEN d ELSE [d EXCEPT !.cols[t] = cols]

\* DROP TABLE t
DropTable(d, t) == [d EXCEPT !.cols[t] = {}, !.rows[t] = {}]

\* ALTER TABLE from RENAME TO to
RenameTable(d, from, to) ==
    [d EXCEPT !.cols[to] = d.cols[from], !.rows[to] = d.rows[from],
              !.cols[from] = {}, !.rows[from] = {}]

\* INSERT OR REPLACE INTO t: the row with the same primary key gives way.
InsertOrReplaceInto(d, t, key, row) ==
    [d EXCEPT !.rows[t] = {r \in @ : r[key] # row[key]} \cup {row}]

\* _set_meta(con, "schema_version", value)
SetMeta(d, value) == [d EXCEPT !.version = value]

\* _get_meta(con, "schema_version"): None is "unset".
GetMeta(d) == d.version

\* _table_columns(con, table)
TableColumns(d, t) == d.cols[t]

\* old_schema_1_0 of _init_db_and_migrate.
OldSchema_1_0_Never(d) == FALSE

OldSchema_1_0(d) ==
    LET has_files == d.cols["files"] # {}
        has_routes == d.cols["routes"] # {}
    IN  IF has_files /\ has_routes
        THEN \/ "path" \in TableColumns(d, "files")
             \/ "file_path" \in TableColumns(d, "routes")
        ELSE FALSE

\* Where _init_db_and_migrate goes for a stored schema version: the
\* statement it runs next and the one that follows _create_schema_1_2.
Dispatch_AnyVersion(schema_version) ==
    CASE schema_version = "1.1" -> [pc |-> "create_files", after |-> "set_meta_1_2"]
      [] OTHER -> [pc |-> "create_files", after |-> "commit"]

Dispatch(schema_version) ==
    CASE schema_version = "1.1" -> [pc |-> "create_files", after |-> "set_meta_1_2"]
      [] schema_version = "1.2" -> [pc |-> "create_files", after |-> "commit"]
      [] OTHER -> [pc |-> "raise", after |-> ""]

\* The stores a released version leaves behind.
FreshStore == NoTables

LegacyStores ==
    {[NoTables EXCEPT !.cols["files"] = Columns_1_0.files,
                      !.cols["routes"] = Columns_1_0.routes,
                      !.rows["files"] = fs,
                      !.rows["routes"] = rs] :
        fs \in SUBSET LegacyFileRows, rs \in SUBSET LegacyRouteRows}

Stores_1_1 ==
    {[NoTables EXCEPT !.cols["meta"] = Columns_1_2.meta,
                      !.cols["files"] = Columns_1_2.files,
                      !.cols["routes"] = Columns_1_2.routes,
                      !.rows["files"] = fs,
                      !.rows["routes"] = rs,
                      !.version = "1.1"] :
        fs \in SUBSET {[rel_path |-> "a.py", sha256 |-> "f1"]},
        rs \in SUBSET {[id |-> "r1", rel_path |-> "a.py"]}}

Stores_1_2 ==
    {[s EXCEPT !.cols["scans"] = Columns_1_2.scans,
               !.cols["scan_endpoints"] = Columns_1_2.scan_endpoints,
               !.rows["scans"] = sc,
               !.rows["scan_endpoints"] = IF sc = {} THEN {} ELSE se,
               !.version = "1.2"] :
        s \in Stores_1_1,
        sc \in SUBSET {[scan_id |-> 1]},
        se \in SUBSET {[scan_id |-> 1, endpoint_id |-> "GET|/a"]}}

\* Stored versions the code does not know.
OtherVersions == {"1.0", "2.0"}

Stores_Other == {[s EXCEPT !.version = v] : s \in Stores_1_2, v \in OtherVersions}

NoOpen ==
    [pc |-> "idle", work |-> NoTables, in_transaction |-> FALSE,
     schema_version |-> "unset", rows |-> {}, after |-> "", before |-> NoTables]

NoOpenCall == [op |-> "none", before |-> NoTables, outcome |-> ""]

InitOpen ==
    /\ db \in {FreshStore} \cup LegacyStores \cup Stores_1_1 \cup Stores_1_2
              \cup Stores_Other
    /\ tx = NoOpen
    /\ last = NoOpenCall
    /\ passed = [p \in AllPaths |-> NoRoutes]
    /\ now = 0
    /\ diff = NoDiff
    /\ disk = NoDisk
    /\ run = Idle
    /\ prev = NoRun
    /\ edits = 0
    /\ snapped = {}
    /\ recorded = NoRecords

\* A CREATE, DROP or ALTER statement that turns the connection's view into
\* d: part of the open transaction, or committed at once when none is open.
DDL(d, pc) ==
    /\ tx' = [tx EXCEPT !.work = d, !.pc = pc]
    /\ db' = IF tx.in_transaction THEN db ELSE d
    /\ UNCHANGED <<last, passed, now, diff, disk, run, prev, edits, snapped, recorded>>

\* An INSERT statement that turns the connection's view into d: it opens a
\* transaction when none is open.
DML(d, pc) ==
    /\ tx' = [tx EXCEPT !.work = d, !.pc = pc, !.in_transaction = TRUE]
    /\ UNCHANGED <<db, last, passed, now, diff, disk, run, prev, edits, snapped, recorded>>

\* A SELECT or a branch: c is the call after it.
Step(c) ==
    /\ tx' = c
    /\ UNCHANGED <<db, last, passed, now, diff, disk, run, prev, edits, snapped, recorded>>

\* SydesSQLiteStore(db_path, repo_root): connect and set the pragmas.
OpenStart ==
    /\ tx.pc = "idle"
    /\ Step([NoOpen EXCEPT !.pc = "create_meta", !.work = db, !.before = db])

\* CREATE TABLE IF NOT EXISTS meta
OpenCreateMeta ==
    /\ tx.pc = "create_meta"
    /\ DDL(CreateTableIfNotExists(tx.work, "meta", Columns_1_2.meta), "get_meta")

\* schema_version = self._get_meta(con, "schema_version")
OpenGetMeta ==
    /\ tx.pc = "get_meta"
    /\ Step([tx EXCEPT !.schema_version = GetMeta(tx.work),
                       !.pc = IF GetMeta(tx.work) = "unset" THEN "detect"
                                                            ELSE "dispatch"])

\* if schema_version is None: look for the legacy layout.
OpenDetect ==
    /\ tx.pc = "detect"
    /\ Step(IF OldSchema_1_0(tx.work)
            THEN [tx EXCEPT !.pc = "create_files_new"]
            ELSE [tx EXCEPT !.pc = "create_files", !.after = "set_meta_1_2"])

\* _migrate_1_0_to_1_1: CREATE TABLE IF NOT EXISTS files_new
MigrateCreateFilesNew ==
    /\ tx.pc = "create_files_new"
    /\ DDL(CreateTableIfNotExists(tx.work, "files_new", Columns_1_2.files_new),
           "create_routes_new")

\* CREATE TABLE IF NOT EXISTS routes_new
MigrateCreateRoutesNew ==
    /\ tx.pc = "create_routes_new"
    /\ DDL(CreateTableIfNotExists(tx.work, "routes_new", Columns_1_2.routes_new),
           "select_files")

\* rows = SELECT path, ... FROM files
MigrateSelectFiles ==
    /\ tx.pc = "select_files"
    /\ Step([tx EXCEPT !.rows = tx.work.rows["files"], !.pc = "copy_files"])

\* One turn of the loop over rows, in the order the SELECT gave them (any
\* order: the statement has no ORDER BY).
MigrateCopyFile ==
    /\ tx.pc = "copy_files"
    /\ \E r \in tx.rows :
          /\ tx' = [tx EXCEPT
                      !.work = InsertOrReplaceInto(tx.work, "files_new", "rel_path",
                                  [rel_path |-> Relativize(r.path),
                                   sha256 |-> r.sha256]),
                      !.rows = @ \ {r},
                      !.in_transaction = TRUE]
          /\ UNCHANGED <<db, last, passed, now, diff, disk, run, prev, edits, snapped, recorded>>

\* rrows = SELECT id, file_path, ... FROM routes
MigrateSelectRoutes ==
    /\ tx.pc = "copy_files"
    /\ tx.rows = {}
    /\ Step([tx EXCEPT !.rows = tx.work.rows["routes"], !.pc = "copy_routes"])

\* One turn of the loop over rrows.
MigrateCopyRoute ==
    /\ tx.pc = "copy_routes"
    /\ \E r \in tx.rows :
          /\ tx' = [tx EXCEPT
                      !.work = InsertOrReplaceInto(tx.work, "routes_new", "id",
                                  [id |-> r.id,
                                   rel_path |-> Relativize(r.file_path)]),
                      !.rows = @ \ {r},
                      !.in_transaction = TRUE]
          /\ UNCHANGED <<db, last, passed, now, diff, disk, run, prev, edits, snapped, recorded>>

\* DROP TABLE routes
MigrateDropRoutes ==
    /\ tx.pc = "copy_routes"
    /\ tx.rows = {}
    /\ DDL(DropTable(tx.work, "routes"), "drop_files")

\* DROP TABLE files
MigrateDropFiles ==
    /\ tx.pc = "drop_files"
    /\ DDL(DropTable(tx.work, "files"), "rename_routes")

\* ALTER TABLE routes_new RENAME TO routes
MigrateRenameRoutes ==
    /\ tx.pc = "rename_routes"
    /\ DDL(RenameTable(tx.work, "routes_new", "routes"), "rename_files")

\* ALTER TABLE files_new RENAME TO files
MigrateRenameFiles ==
    /\ tx.pc = "rename_files"
    /\ DDL(RenameTable(tx.work, "files_new", "files"), "set_meta_1_1")

\* schema_version = "1.1"; self._set_meta(con, "schema_version", schema_version)
OpenSetMeta_1_1 ==
    /\ tx.pc = "set_meta_1_1"
    /\ tx' = [tx EXCEPT !.work = SetMeta(tx.work, "1.1"), !.schema_version = "1.1",
                        !.pc = "dispatch", !.in_transaction = TRUE]
    /\ UNCHANGED <<db, last, passed, now, diff, disk, run, prev, edits, snapped, recorded>>

\* The tests on schema_version that follow.
OpenDispatch ==
    /\ tx.pc = "dispatch"
    /\ Step([tx EXCEPT !.pc = Dispatch(tx.schema_version).pc,
                       !.after = Dispatch(tx.schema_version).after])

\* _create_schema_1_2: CREATE TABLE IF NOT EXISTS files
CreateSchemaFiles ==
    /\ tx.pc = "create_files"
    /\ DDL(CreateTableIfNotExists(tx.work, "files", Columns_1_2.files),
           "create_routes")

\* CREATE TABLE IF NOT EXISTS routes
CreateSchemaRoutes ==
    /\ tx.pc = "create_routes"
    /\ DDL(CreateTableIfNotExists(tx.work, "routes", Columns_1_2.routes),
           "create_scans")

\* CREATE TABLE IF NOT EXISTS scans
CreateSchemaScans ==
    /\ tx.pc = "create_scans"
    /\ DDL(CreateTableIfNotExists(tx.work, "scans", Columns_1_2.scans),
           "create_scan_endpoints")

\* CREATE TABLE IF NOT EXISTS scan_endpoints
CreateSchemaScanEndpoints ==
    /\ tx.pc = "create_scan_endpoints"
    /\ DDL(CreateTableIfNotExists(tx.work, "scan_endpoints",
                                  Columns_1_2.scan_endpoints),
           tx.after)

\* self._set_meta(con, "schema_version", self.SCHEMA_VERSION)
OpenSetMeta_1_2 ==
    /\ tx.pc = "set_meta_1_2"
    /\ DML(SetMeta(tx.work, "1.2"), "commit")

\* return: the with block commits.
OpenCommit ==
    /\ tx.pc = "commit"
    /\ db' = tx.work
    /\ tx' = NoOpen
    /\ last' = [op |-> "open", before |-> tx.before, outcome |-> "ok"]
    /\ UNCHANGED <<passed, now, diff, disk, run, prev, edits, snapped, recorded>>

\* raise RuntimeError("Unsupported schema_version in DB: ..."): the with
\* block rolls back and the constructor raises.
OpenRaise ==
    /\ tx.pc = "raise"
    /\ tx' = NoOpen
    /\ last' = [op |-> "open", before |-> tx.before, outcome |-> "error"]
    /\ UNCHANGED <<db, passed, now, diff, disk, run, prev, edits, snapped, recorded>>

\* The statement about to run fails, or the process dies before it: the
\* open transaction is rolled back, what was committed stays.
OpenFail ==
    /\ tx.pc \notin {"idle", "raise"}
    /\ tx' = NoOpen
    /\ last' = [op |-> "open", before |-> tx.before, outcome |-> "failed"]
    /\ UNCHANGED <<db, passed, now, diff, disk, run, prev, edits, snapped, recorded>>

NextOpen ==
    \/ OpenStart
    \/ OpenCreateMeta
    \/ OpenGetMeta
    \/ OpenDetect
    \/ MigrateCreateFilesNew
    \/ MigrateCreateRoutesNew
    \/ MigrateSelectFiles
    \/ MigrateCopyFile
    \/ MigrateSelectRoutes
    \/ MigrateCopyRoute
    \/ MigrateDropRoutes
    \/ MigrateDropFiles
    \/ MigrateRenameRoutes
    \/ MigrateRenameFiles
    \/ OpenSetMeta_1_1
    \/ OpenDispatch
    \/ CreateSchemaFiles
    \/ CreateSchemaRoutes
    \/ CreateSchemaScans
    \/ CreateSchemaScanEndpoints
    \/ OpenSetMeta_1_2
    \/ OpenCommit
    \/ OpenRaise
    \/ OpenFail

SpecOpen == InitOpen /\ [][NextOpen]_vars

\* The tables of the current schema exist with the columns of the current
\* code and the stored version is "1.2".
Schema_1_2(d) ==
    /\ d.version = "1.2"
    /\ \A t \in {"files", "routes", "scans", "scan_endpoints"} :
          d.cols[t] = Columns_1_2[t]

\* The four states of a store that a released version leaves behind.
StoreWithoutTables(d) ==
    /\ d.version = "unset"
    /\ \A t \in {"files", "routes", "scans", "scan_endpoints"} : d.cols[t] = {}

LegacyStore(d) ==
    /\ d.version = "unset"
    /\ d.cols["files"] = Columns_1_0.files
    /\ d.cols["routes"] = Columns_1_0.routes

Store_1_1(d) ==
    /\ d.version = "1.1"
    /\ d.cols["files"] = Columns_1_2.files
    /\ d.cols["routes"] = Columns_1_2.routes

Store_1_2(d) ==
    /\ d.version = "1.2"
    /\ d.cols["files"] \in {{}, Columns_1_2.files}
    /\ d.cols["routes"] \in {{}, Columns_1_2.routes}

VersionRank(v) ==
    CASE v = "unset" -> 0
      [] v = "1.1" -> 1
      [] v = "1.2" -> 2
      [] OTHER -> 3

\* The rows of the four tables of the schema.
DataRows(d) == [t \in {"files", "routes", "scans", "scan_endpoints"} |-> d.rows[t]]

(***************************************************************************)
(* C13: an open that runs to its end on a store without tables, a store    *)
(* in the legacy layout, a 1.1 store or a 1.2 store does not raise and     *)
(* leaves the stored version "1.2" with files, routes, scans and           *)
(* scan_endpoints in the layout of the current code; the stored version,   *)
(* and the version the open has written so far, never move backwards along *)
(* unset, 1.1, 1.2.                                                        *)
(***************************************************************************)
C13_OpenReachesCurrentSchema ==
    /\ [](tx.pc = "idle" /\ last.op = "open"
            /\ (\/ StoreWithoutTables(last.before) \/ LegacyStore(last.before)
                \/ Store_1_1(last.before) \/ Store_1_2(last.before))
          => /\ last.outcome # "error"
             /\ last.outcome = "ok" => Schema_1_2(db))
    /\ [][ /\ VersionRank(db'.version) >= VersionRank(db.version)
           /\ tx.pc # "idle" /\ tx'.pc # "idle"
                => VersionRank(tx'.work.version) >= VersionRank(tx.work.version)
         ]_vars

\* A legacy store with file rows has been opened and is now a 1.2 store.
C13_Witness ==
    /\ tx.pc = "idle"
    /\ last.op = "open"
    /\ last.outcome = "ok"
    /\ LegacyStore(last.before)
    /\ last.before.rows["files"] # {}
    /\ Schema_1_2(db)
    /\ db.rows["files"] # {}

(***************************************************************************)
(* C14: an open of a store whose stored version is neither "1.1" nor "1.2" *)
(* does not return a store; while it runs and after it has raised the      *)
(* persisted store, version and tables, is what it was before the open.    *)
(***************************************************************************)
C14_UnknownVersionRefused ==
    /\ tx.pc # "idle" /\ tx.before.version \in OtherVersions => db = tx.before
    /\ tx.pc = "idle" /\ last.op = "open" /\ last.before.version \in OtherVersions
          => last.outcome # "ok" /\ db = last.before

\* An open of a store with rows and the stored version "2.0" has raised.
C14_Witness ==
    /\ tx.pc = "idle"
    /\ last.op = "open"
    /\ last.outcome = "error"
    /\ last.before.version = "2.0"
    /\ last.before.rows["files"] # {}
    /\ last.before.rows["scan_endpoints"] # {}

(***************************************************************************)
(* C15: after an open that failed or was cut short at any statement, the   *)
(* persisted store is the store before that open: the same tables, the     *)
(* same rows, the same version.                                            *)
(***************************************************************************)
C15_MigrationAllOrNothing ==
    tx.pc = "idle" /\ last.op = "open" /\ last.outcome = "failed"
        => db = last.before

(***************************************************************************)
(* C16: an open of a store whose stored version is "1.2" changes neither   *)
(* the stored version nor a row of files, routes, scans or scan_endpoints, *)
(* at any statement and when it has returned.                              *)
(***************************************************************************)
C16_OpenIsIdempotent ==
    /\ tx.pc # "idle" /\ tx.before.version = "1.2"
          => db.version = "1.2" /\ DataRows(db) = DataRows(tx.before)
    /\ tx.pc = "idle" /\ last.op = "open" /\ last.before.version = "1.2"
          => db.version = "1.2" /\ DataRows(db) = DataRows(last.before)

\* A store that a legacy migration produced (it has a row whose path stayed
\* absolute) has been opened again.
C16_Witness ==
    /\ tx.pc = "idle"
    /\ last.op = "open"
    /\ last.outcome = "ok"
    /\ last.before.version = "1.2"
    /\ [rel_path |-> "/elsewhere/x.py", sha256 |-> "k"] \in last.before.rows["files"]
    /\ last.before.rows["routes"] # {}

(***************************************************************************)
(* C17: a legacy migration that ran to its end kept every row: the files   *)
(* and routes tables have as many rows as the legacy tables had, and each  *)
(* legacy row is there with its path made relative to the repository root, *)
(* or verbatim when the path cannot be made relative.                      *)
(***************************************************************************)
C17_MigrationKeepsEveryRow ==
    tx.pc = "idle" /\ last.op = "open" /\ last.outcome = "ok"
    /\ LegacyStore(last.before)
        => /\ Cardinality(db.rows["files"]) = Cardinality(last.before.rows["files"])
           /\ Cardinality(db.rows["routes"]) = Cardinality(last.before.rows["routes"])
           /\ \A r \in last.before.rows["files"] :
                 [rel_path |-> IF InsideRoot(r.path) THEN Relativize(r.path) ELSE r.path,
                  sha256 |-> r.sha256] \in db.rows["files"]
           /\ \A r \in last.before.rows["routes"] :
                 [id |-> r.id,
                  rel_path |-> IF InsideRoot(r.file_path) THEN Relativize(r.file_path)
                                                          ELSE r.file_path]
                     \in db.rows["routes"]


(***************************************************************************)
(* SpecRegistry: the file registry under any sequence of whole calls, with *)
(* the clock running, so that an upsert can differ from the one before it  *)
(* in its hash and in last_scanned_at.                                     *)
(***************************************************************************)
NextRegistry ==
    \/ \E p \in StorePaths, sha \in Shas :
          CallUpsertFileStatus(FileStatus(p, sha, 10, 7, now))
    \/ \E p \in StorePaths : CallRemoveFile(p)
    \/ \E p \in StorePaths, r \in StoreDecls : CallReplaceRoutes(p, <<r>>, "ast")
    \/ Tick

SpecRegistry == Init /\ [][NextRegistry]_vars

(***************************************************************************)
(* C18: after any sequence of upsert_file_status, remove_file and          *)
(* replace_routes_for_file calls the files table holds at most one row per *)
(* path, get_file_status(p) is the record of the last upsert for p that no *)
(* remove_file(p) followed and nothing otherwise, and list_tracked_files   *)
(* gives exactly the paths that have a record, each once.                  *)
(***************************************************************************)
C18_FileRegistryIsMap ==
    /\ \A p \in StorePaths :
          /\ Cardinality(GetFileStatus(db, p)) <= 1
          /\ GetFileStatus(db, p) = recorded[p]
    /\ ListTrackedFiles(db) = {p \in StorePaths : recorded[p] # {}}
    /\ Cardinality(db.files) = Cardinality(ListTrackedFiles(db))

\* A path was upserted with one hash and then with another, a second path
\* was upserted and then removed.
C18_Witness ==
    /\ last.op = "remove_file"
    /\ last.rel_path = "a.py"
    /\ recorded["a.py"] = {}
    /\ recorded["a.py|GET|/b.py"] = {FileStatus("a.py|GET|/b.py", "s2", 10, 7, 1)}
    /\ db.files = recorded["a.py|GET|/b.py"]


C20_FingerprintFailureNotFatal ==
    [][ (run.pc = "fingerprint" /\ run' # run /\ disk' = disk
            /\ ~Exists(disk[Head(run.todo)]))
          => /\ run'.pc = "check"
             /\ run'.todo = Tail(run.todo)
             /\ db' = RemoveFile(db, Head(run.todo)) ]_vars


(***************************************************************************)
(* SpecWrites: the five write calls of the store statement by statement,   *)
(* as in SpecTx, on one file.  snapshot_current_endpoints reads the route  *)
(* table with list_routes before it opens its write transaction.           *)
(***************************************************************************)
WritePaths == {"a.py"}

CreateScanStmts(ts, git_commit) ==
    << Stmt("insert_scan", [ts |-> ts, git_commit |-> git_commit]) >>

\* create_scan(git_commit): INSERT INTO scans, then SELECT last_insert_rowid().
TxBeginCreateScan(git_commit) ==
    /\ tx.op = "none"
    /\ db.seq < MaxScans
    /\ tx' = TxCall("create_scan", "", CreateScanStmts(now, git_commit), db.seq + 1)
    /\ UNCHANGED <<db, last, passed, now, diff, disk, run, prev, edits, snapped, recorded>>

\* snapshot_current_endpoints(scan_id): rows = self.list_routes(...), then
\* one executemany of the rows kept.
TxBeginSnapshot(scan_id) ==
    /\ tx.op = "none"
    /\ \E rows \in ListRoutesAll(db, SnapshotLimit) :
          tx' = TxCall("snapshot_current_endpoints", "",
                       SnapshotStmts(rows, scan_id),
                       Len(SnapshotInserts(rows, scan_id)))
    /\ UNCHANGED <<db, last, passed, now, diff, disk, run, prev, edits, snapped, recorded>>

NextWrites ==
    \/ \E p \in WritePaths : TxBeginRemoveFile(p)
    \/ \E p \in WritePaths, rs \in TxRouteLists : TxBeginReplaceRoutes(p, rs, "ast")
    \/ \E p \in WritePaths, sha \in Shas :
          TxBeginUpsertFileStatus(FileStatus(p, sha, 10, 7, now))
    \/ TxBeginCreateScan("none")
    \/ \E scan_id \in ScanIdInputs : TxBeginSnapshot(scan_id)
    \/ TxExec
    \/ TxCommit
    \/ TxAbort

SpecWrites == InitTx /\ [][NextWrites]_vars


(***************************************************************************)
(* C21: each write call is all-or-nothing.  The persisted store changes    *)
(* only in the step that ends a call all of whose statements have run, and *)
(* then to the outcome of all of them; a call that ends with statements    *)
(* left (it raised, or the process died) leaves the persisted store as it  *)
(* was before the call.                                                    *)
(***************************************************************************)
C21_WritesAllOrNothing ==
    [][ /\ db' # db => /\ tx.op # "none"
                       /\ tx.stmts = <<>>
                       /\ tx'.op = "none"
                       /\ db' = tx.work
        /\ (tx.op # "none" /\ tx.stmts # <<>>) => db' = db
      ]_vars

\* replace_routes_for_file has deleted the two old routes of the file and
\* inserted one of two new routes; the persisted store has the old routes.
C21_Witness ==
    /\ tx.op = "replace_routes_for_file"
    /\ Len(tx.stmts) = 1
    /\ Cardinality(RoutesOf(tx.work, tx.rel_path)) = 1
    /\ Cardinality(RoutesOf(db, tx.rel_path)) = 2
    /\ tx.ret = 2

(***************************************************************************)
(* Full-mode runs over a repository whose files are FastAPI modules and a  *)
(* Flask module that uses the method decorators (content "m"), with files  *)
(* written, created and deleted between and during the runs.               *)
(***************************************************************************)
FullContents == {"f1", "m"}

InitFullFiles(rel_path) ==
    IF rel_path = "a.py" THEN [content : FullContents, mtime_ns : {1}]
    ELSE {Absent, [content |-> "f1", mtime_ns |-> 1]}

InitFullRuns ==
    /\ db = EmptyDb
    /\ tx = NoTx
    /\ last = NoCall
    /\ passed = [p \in AllPaths |-> NoRoutes]
    /\ now = 0
    /\ diff = NoDiff
    /\ disk \in {d \in [RepoPaths -> UNION {InitFullFiles(p) : p \in RepoPaths}] :
                  \A p \in RepoPaths : d[p] \in InitFullFiles(p)}
    /\ run = Idle
    /\ prev = NoRun
    /\ edits = 0
    /\ snapped = {}
    /\ recorded = NoRecords

NextFullRuns ==
    \/ RunStart(FALSE, [changed |-> {}, deleted |-> {}])
    \/ RunRemove
    \/ RunCheck
    \/ RunFingerprint
    \/ RunReplace
    \/ RunUpsert
    \/ RunCreateScan
    \/ RunSnapshot
    \/ \E p \in RepoPaths : \E c \in FullContents \cup {"absent"} : EditFile(p, c)
    \/ \E p \in RepoPaths : TouchFile(p)
    \/ Tick

SpecFullRuns == InitFullRuns /\ [][NextFullRuns]_vars

(***************************************************************************)
(* C22: when a full run during which no file changed completes with scan   *)
(* s2, and the completed run before it was such a run too, with scan s1,   *)
(* the added list of diff_scans(s1, s2) holds exactly the endpoints the    *)
(* repository declares at the second run and did not declare at the first, *)
(* and the removed list exactly those declared at the first and not at the *)
(* second.                                                                 *)
(***************************************************************************)
C22_DiffOfConsecutiveRuns ==
    [][ (run.pc = "snapshot" /\ run'.pc = "idle" /\ run.mode = "full"
            /\ run.clean /\ prev.declared # {})
          => LET first == CHOOSE x \in prev.declared : TRUE
                 second == Declared(disk)
                 d == DiffScans(db', prev.scan_id, run.scan_id)
             IN  /\ IdsOfList(d.added) = second \ first
                 /\ IdsOfList(d.removed) = first \ second
                 /\ Len(d.added) = Cardinality(second \ first)
                 /\ Len(d.removed) = Cardinality(first \ second) ]_vars

(***************************************************************************)
(* C23: within a run, the scan row and the snapshot rows are written only  *)
(* when no file of the run is left to remove or to process, the file and   *)
(* route tables are written only before the run's scan exists, and the     *)
(* endpoints stored for the run's scan are exactly the distinct            *)
(* (method, path) pairs of the route table as the file processing left it, *)
(* each with the location of one of the routes that declare it.            *)
(***************************************************************************)
C23_SnapshotAfterFileProcessing ==
    [][ /\ (db'.scans # db.scans \/ db'.scan_endpoints # db.scan_endpoints)
              => /\ run.pc \in {"remove", "check", "snapshot"}
                 /\ run.removes = {}
                 /\ run.todo = <<>>
        /\ (db'.files # db.files \/ db'.routes # db.routes)
              => /\ run.pc \in {"remove", "check", "replace", "upsert"}
                 /\ run.scan_id = 0
        /\ run.pc = "snapshot" => db'.routes = db.routes
        /\ (run.pc = "snapshot" /\ run'.pc = "idle")
              => LET stored == {e \in db'.scan_endpoints : e.scan_id = run.scan_id}
                 IN  /\ db'.scans = db.scans
                     /\ {e.endpoint_id : e \in stored}
                           = {EndpointId(r.method, r.http_path) : r \in db.routes}
                     /\ Cardinality(stored) = Cardinality({e.endpoint_id : e \in stored})
                     /\ \A e \in stored : \E r \in db.routes :
                           /\ e.endpoint_id = EndpointId(r.method, r.http_path)
                           /\ e.rel_path = r.rel_path
                           /\ e.handler_name = r.handler_name
                           /\ e.decl_line = r.decl_line
      ]_vars

\* The second run of a behaviour re-extracted a file and its scan has rows.
C23_Witness ==
    /\ last.op = "run_analyze"
    /\ last.ret = 2
    /\ last.changed_files > 0
    /\ Cardinality({e \in db.scan_endpoints : e.scan_id = 2}) = 2

(***************************************************************************)
(* list_scans and the scan pair of `sydes diff --last`.                    *)
(***************************************************************************)
MaxLimit == 3       \* largest limit passed to list_scans and list_routes

\* The limits passed; SQLite reads a negative LIMIT as no limit.
LimitInputs == (0 - 1) .. MaxLimit

GitCommits == {"none", "c1"}

\* ScanMeta of a row of scans.
ScanMeta(r) ==
    [scan_id |-> r.scan_id, created_at |-> r.created_at, git_commit |-> r.git_commit]

\* ORDER BY scan_id DESC
RECURSIVE OrderByScanId_Desc(_)
OrderByScanId_Desc(rows) ==
    IF rows = {} THEN <<>>
    ELSE LET m == CHOOSE x \in rows : \A y \in rows : y.scan_id <= x.scan_id
         IN  <<m>> \o OrderByScanId_Desc(rows \ {m})

\* LIMIT ?
Limit(s, limit) ==
    IF limit < 0 \/ Len(s) <= limit THEN s ELSE SubSeq(s, 1, limit)

\* list_scans(limit)
ListScans_OldestFirst(d, limit) ==
    LET desc == OrderByScanId_Desc(d.scans)
        rows == Limit([i \in DOMAIN desc |-> desc[Len(desc) + 1 - i]], limit)
    IN  [i \in DOMAIN rows |-> ScanMeta(rows[i])]

ListScans(d, limit) ==
    LET rows == Limit(OrderByScanId_Desc(d.scans), limit)
    IN  [i \in DOMAIN rows |-> ScanMeta(rows[i])]

\* The scan pair chosen by `diff --last`, or the BadParameter error.
DiffLast(d) ==
    LET scans == ListScans(d, 2)
    IN  IF Len(scans) < 2
          THEN [error |-> TRUE, from_id |-> 0, to_id |-> 0]
          ELSE [error |-> FALSE, from_id |-> scans[2].scan_id, to_id |-> scans[1].scan_id]

\* store.list_scans(limit)
CallListScans(limit) ==
    /\ last' = [op |-> "list_scans", rel_path |-> "", ret |-> ListScans(db, limit),
                limit |-> limit, scans |-> db.scans]
    /\ UNCHANGED <<db, tx, passed, now, diff, disk, run, prev, edits, snapped, recorded>>

\* sydes diff <repo> --last, up to the choice of the two scans
CallDiffLast ==
    /\ last' = [op |-> "diff_last", rel_path |-> "", ret |-> DiffLast(db),
                scans |-> db.scans]
    /\ UNCHANGED <<db, tx, passed, now, diff, disk, run, prev, edits, snapped, recorded>>

NextListScans ==
    \/ \E g \in GitCommits : CallCreateScan(g)
    \/ \E limit \in LimitInputs : CallListScans(limit)
    \/ CallDiffLast
    \/ Tick

SpecListScans == InitScan /\ [][NextListScans]_vars

(***************************************************************************)
(* C24: list_scans(limit), limit >= 0, returns min(limit, number of scans) *)
(* scans in strictly decreasing scan id, each a stored scan, and no scan   *)
(* left out is newer than a returned one; `diff --last` compares the scan  *)
(* with the largest id (to) with the scan with the next largest (from),    *)
(* and refuses when there are fewer than two scans.                        *)
(***************************************************************************)
C24_ListScansNewestFirst ==
    /\ (last.op = "list_scans" /\ last.limit >= 0) =>
          LET s == last.ret
              n == Cardinality(last.scans)
              returned == {s[i].scan_id : i \in DOMAIN s}
          IN  /\ Len(s) = IF last.limit < n THEN last.limit ELSE n
              /\ \A i, j \in DOMAIN s : i < j => s[i].scan_id > s[j].scan_id
              /\ \A i \in DOMAIN s : \E r \in last.scans : s[i] = ScanMeta(r)
              /\ \A r \in last.scans :
                    r.scan_id \notin returned => \A k \in returned : r.scan_id < k
    /\ last.op = "diff_last" =>
          LET ids == {r.scan_id : r \in last.scans}
              IsMax(x, S) == x \in S /\ \A y \in S : y <= x
          IN  /\ last.ret.error <=> Cardinality(ids) < 2
              /\ ~last.ret.error =>
                    /\ IsMax(last.ret.to_id, ids)
                    /\ IsMax(last.ret.from_id, ids \ {last.ret.to_id})

\* list_scans(1) with two scans stored returned the newer one.
C24_Witness ==
    /\ last.op = "list_scans"
    /\ last.limit = 1
    /\ Cardinality(last.scans) = 2
    /\ Len(last.ret) = 1
    /\ last.ret[1].scan_id = 2

(***************************************************************************)
(* list_routes with its filters.                                           *)
(***************************************************************************)

\* The characters of the strings compared by LIKE in the model.
Chars(s) ==
    CASE s = "/a"   -> <<"/", "a">>
      [] s = "/z"   -> <<"/", "z">>
      [] s = "a.py" -> <<"a", ".", "p", "y">>
      [] s = "b.py" -> <<"b", ".", "p", "y">>
      [] s = "A."   -> <<"A", ".">>
      [] s = "%"    -> <<"%">>
      [] OTHER      -> <<s>>

\* LIKE compares ASCII letters without regard to case.
Fold(c) ==
    CASE c = "A" -> "a"
      [] c = "H" -> "h"
      [] OTHER -> c

\* text LIKE pattern: % matches any run of characters, _ any one character.
RECURSIVE Like(_, _)
Like(text, pattern) ==
    IF pattern = <<>> THEN text = <<>>
    ELSE IF Head(pattern) = "%"
           THEN \/ Like(text, Tail(pattern))
                \/ text # <<>> /\ Like(Tail(text), pattern)
           ELSE /\ text # <<>>
                /\ Head(pattern) = "_" \/ Fold(Head(pattern)) = Fold(Head(text))
                /\ Like(Tail(text), Tail(pattern))

\* column LIKE f"%{needle}%"
LikeContains(text, needle) == Like(Chars(text), <<"%">> \o Chars(needle) \o <<"%">>)

\* needle in text
Contains(text, needle) ==
    LET t == Chars(text)
        n == Chars(needle)
    IN  \E i \in 1..(Len(t) + 1) :
            /\ i + Len(n) - 1 <= Len(t)
            /\ SubSeq(t, i, i + Len(n) - 1) = n

\* The filters of a call; "" stands for a filter not given (None or '').
FilterInputs ==
    [method : {"", "get"},
     http_path : {"", "/a"},
     path_contains : {"", "_"},
     file_contains : {"", "A."},
     handler_contains : {"", "h"}]

\* The WHERE clause built by list_routes.
Where(r, f) ==
    /\ f.method # "" => r.method = Upper(f.method)
    /\ f.http_path # "" => r.http_path = f.http_path
    /\ f.path_contains # "" => LikeContains(r.http_path, f.path_contains)
    /\ f.file_contains # "" => LikeContains(r.rel_path, f.file_contains)
    /\ f.handler_contains # "" => LikeContains(r.handler_name, f.handler_contains)

\* list_routes(method, http_path, path_contains, file_contains,
\* handler_contains, limit): the possible results.
ListRoutes(d, f, limit) ==
    {Limit(s, limit) : s \in SortedOrders({r \in d.routes : Where(r, f)})}

\* store.list_routes(...)
CallListRoutes(f, limit) ==
    /\ \E rows \in ListRoutes(db, f, limit) :
          last' = [op |-> "list_routes", rel_path |-> "", ret |-> rows,
                   filters |-> f, limit |-> limit, routes |-> db.routes]
    /\ UNCHANGED <<db, tx, passed, now, diff, disk, run, prev, edits, snapped, recorded>>

NextListRoutes ==
    \/ \E p \in ScanPaths :
          \E rs \in ScanRouteLists(p) :
              CallReplaceRoutes(p, rs, "ast")
    \/ \E p \in ScanPaths : CallRemoveFile(p)
    \/ \E f \in FilterInputs : \E limit \in LimitInputs : CallListRoutes(f, limit)

SpecListRoutes == InitScan /\ [][NextListRoutes]_vars

\* What the filters ask of a row.
Satisfies(r, f) ==
    /\ f.method # "" => r.method = Upper(f.method)
    /\ f.http_path # "" => r.http_path = f.http_path
    /\ f.path_contains # "" => Contains(r.http_path, f.path_contains)
    /\ f.file_contains # "" => Contains(r.rel_path, f.file_contains)
    /\ f.handler_contains # "" => Contains(r.handler_name, f.handler_contains)

(***************************************************************************)
(* C25: the rows list_routes returns are rows of the route table in        *)
(* ascending order of (method, URL path, file path, declaration line), at  *)
(* most `limit` of them (limit >= 0), each satisfying every filter given,  *)
(* and the sequence returned is the only one the call can return for the   *)
(* route table content and the arguments.                                  *)
(***************************************************************************)
C25_ListRoutesDeterministic ==
    last.op = "list_routes" =>
        LET s == last.ret
        IN  /\ \A i \in DOMAIN s : s[i] \in last.routes
            /\ \A i, j \in DOMAIN s : i < j => ~KeyLess(s[j], s[i])
            /\ last.limit >= 0 => Len(s) <= last.limit
            /\ \A i \in DOMAIN s : Satisfies(s[i], last.filters)
            /\ ListRoutes([routes |-> last.routes], last.filters, last.limit) = {s}

(***************************************************************************)
(* Full and git runs over a repository in which a file can lose its API    *)
(* code: content "p" is a Python file without any framework marker.        *)
(***************************************************************************)
GitContents == {"f1", "p"}

InitGitRuns ==
    /\ db = EmptyDb
    /\ tx = NoTx
    /\ last = NoCall
    /\ passed = [p \in AllPaths |-> NoRoutes]
    /\ now = 0
    /\ diff = NoDiff
    /\ disk \in [RepoPaths -> [content : GitContents, mtime_ns : {1}]]
    /\ run = Idle
    /\ prev = NoRun
    /\ edits = 0
    /\ snapped = {}
    /\ recorded = NoRecords

NextGitRuns ==
    \/ RunStart(FALSE, [changed |-> {}, deleted |-> {}])
    \/ \E g \in GitOutputs : RunStart(TRUE, g)
    \/ RunRemove
    \/ RunCheck
    \/ RunFingerprint
    \/ RunReplace
    \/ RunUpsert
    \/ RunCreateScan
    \/ RunSnapshot
    \/ \E p \in RepoPaths : \E c \in GitContents \cup {"absent"} : EditFile(p, c)
    \/ \E p \in RepoPaths : TouchFile(p)
    \/ Tick

SpecGitRuns == InitGitRuns /\ [][NextGitRuns]_vars

(***************************************************************************)
(* C26: when a run completes, in full or in git mode, every file that was  *)
(* not among the candidates the run selected, or that the run found        *)
(* missing when it came to process it, has no file record and no routes.   *)
(***************************************************************************)
C26_NonCandidatesForgotten ==
    [][ (run.pc = "snapshot" /\ run'.pc = "idle")
          => \A p \in RepoPaths :
                p \notin Range(run.candidates)
                   => /\ GetFileStatus(db', p) = {}
                      /\ RoutesOf(db', p) = {} ]_vars

\* The same for full runs only.
FullRunsForget ==
    [][ (run.pc = "snapshot" /\ run'.pc = "idle" /\ run.mode = "full")
          => \A p \in RepoPaths :
                p \notin Range(run.candidates)
                   => /\ GetFileStatus(db', p) = {}
                      /\ RoutesOf(db', p) = {} ]_vars

(***************************************************************************)
(* C27: in every reachable state the scan id of every row of               *)
(* scan_endpoints is the id of exactly one row of scans.                   *)
(***************************************************************************)
C27_SnapshotsBelongToScans ==
    \A e \in db.scan_endpoints :
        Cardinality({sc \in db.scans : sc.scan_id = e.scan_id}) = 1

(***************************************************************************)
(* Runs that die between two store calls.  Every store call is one         *)
(* transaction, so the store is left as the last completed call left it.   *)
(***************************************************************************)
MaxCrashes == 1     \* runs that die in one behaviour

\* The process dies during run_analyze, after RunStart and outside a store
\* call.  The store keeps what the calls made so far have committed.
RunCrash_HashBeforeRoutes ==
    /\ run.pc = "replace"
    /\ prev.crashes < MaxCrashes
    /\ db' = UpsertFileStatus(db, FileStatus(Head(run.todo), run.sha, run.mtime_ns,
                                             run.size_bytes, now))
    /\ prev' = [prev EXCEPT !.done = FALSE, !.clean = run.clean, !.declared = {},
                            !.crashed = TRUE, !.crashes = @ + 1, !.crash_pc = "upsert",
                            !.files0 = run.files_before,
                            !.routes0 = run.routes_before]
    /\ run' = Idle
    /\ UNCHANGED <<tx, last, passed, now, diff, disk, edits, snapped, recorded>>

RunCrash ==
    /\ run.pc # "idle"
    /\ prev.crashes < MaxCrashes
    /\ prev' = [prev EXCEPT !.done = FALSE, !.clean = run.clean, !.declared = {},
                            !.crashed = TRUE, !.crashes = @ + 1, !.crash_pc = run.pc,
                            !.files0 = run.files_before,
                            !.routes0 = run.routes_before]
    /\ run' = Idle
    /\ UNCHANGED <<db, tx, last, passed, now, diff, disk, edits, snapped, recorded>>

\* Lines 109-115 as a function: the stale paths removed from the store.
RECURSIVE RemoveFiles(_, _)
RemoveFiles(d, stale) ==
    IF stale = {} THEN d
    ELSE LET rel_path == CHOOSE x \in stale : TRUE
         IN  RemoveFiles(RemoveFile(d, rel_path), stale \ {rel_path})

\* Lines 137-181 as a function: the store after the loop over the files.
RECURSIVE ProcessFiles(_, _, _, _, _)
ProcessFiles(d, todo, framework, dk, ts) ==
    IF todo = <<>> THEN d
    ELSE LET rel_path == Head(todo)
             f == dk[rel_path]
             routes == IF framework = "fastapi"
                         THEN DedupRoutes(ExtractRoutesFromFile(f), {})
                         ELSE <<>>
             source == IF framework = "fastapi" THEN "ast" ELSE "unknown"
             after ==
                 IF ~Exists(f) THEN RemoveFile(d, rel_path)
                 ELSE IF SameAsRecorded(GetFileStatus(d, rel_path), f.content,
                                        f.mtime_ns, SizeBytes(f.content))
                 THEN d
                 ELSE UpsertFileStatus(
                          ReplaceRoutesForFile(d, rel_path, routes, source, ts),
                          FileStatus(rel_path, f.content, f.mtime_ns,
                                     SizeBytes(f.content), ts))
         IN  ProcessFiles(after, Tail(todo), framework, dk, ts)

\* The file and route tables after an uninterrupted full-mode run_analyze on
\* the store d and the repository dk.
FullRunResult(d, dk, ts) ==
    LET py_files == ScanPythonFiles(dk)
        framework == DetectPythonFramework(dk, py_files)
        candidates == SelectCandidateApiFiles(dk, py_files, framework)
        stale == ListTrackedFiles(d) \ Range(candidates)
    IN  ProcessFiles(RemoveFiles(d, stale), candidates, framework, dk, ts)

\* FileRecords by path and hash, RouteRecords without their timestamp.
FilesView(files) == {<<f.rel_path, f.sha256>> : f \in files}

RoutesView(routes) == {[r EXCEPT !.updated_at = 0] : r \in routes}

CrashContents == {"f1", "f2"}

InitCrash ==
    /\ db = EmptyDb
    /\ tx = NoTx
    /\ last = NoCall
    /\ passed = [p \in AllPaths |-> NoRoutes]
    /\ now = 0
    /\ diff = NoDiff
    /\ disk \in {dk \in [RepoPaths -> {Absent} \cup [content : CrashContents, mtime_ns : {1}]] :
                   Exists(dk["a.py"]) /\ dk["b.py"].content # "f2"}
    /\ run = Idle
    /\ prev = NoRun
    /\ edits = 0
    /\ snapped = {}
    /\ recorded = NoRecords

\* A file is written, created or deleted while no run is under way.
EditBetweenRuns(rel_path, content) ==
    /\ run.pc = "idle"
    /\ EditFile(rel_path, content)

NextCrash ==
    \/ RunStart(FALSE, [changed |-> {}, deleted |-> {}])
    \/ RunStart(TRUE, [changed |-> {"a.py", "b.py"}, deleted |-> {}])
    \/ RunRemove
    \/ RunCheck
    \/ RunFingerprint
    \/ RunReplace
    \/ RunUpsert
    \/ RunCreateScan
    \/ RunSnapshot
    \/ RunCrash
    \/ \E p \in EditPaths : \E c \in CrashContents \cup {"absent"} : EditBetweenRuns(p, c)

SpecCrash == InitCrash /\ [][NextCrash]_vars

(***************************************************************************)
(* C28: when a full-mode run completes during which no file changed, its   *)
(* file records (paths and hashes) and route records are those of an       *)
(* uninterrupted full-mode run on the store as the run found it; and when  *)
(* the run before it died between two store calls, and no file changed     *)
(* since that run started, they are also those of an uninterrupted         *)
(* full-mode run on the store as the run that died had found it.           *)
(***************************************************************************)
C28_CrashRecoverable ==
    [][ (run.pc = "snapshot" /\ run'.pc = "idle" /\ run.mode = "full" /\ run.clean)
          => LET Same(files, routes) ==
                     LET ref == FullRunResult([db EXCEPT !.files = files,
                                                         !.routes = routes],
                                              disk, now)
                     IN  /\ FilesView(db'.files) = FilesView(ref.files)
                         /\ RoutesView(db'.routes) = RoutesView(ref.routes)
             IN  /\ Same(run.files_before, run.routes_before)
                 /\ (prev.crashed /\ prev.clean) => Same(prev.files0, prev.routes0) ]_vars

\* A full run completed after a run died between replace_routes_for_file and
\* upsert_file_status of a rewritten file, and re-extracted that file.
C28_Witness ==
    /\ last.op = "run_analyze"
    /\ last.mode = "full"
    /\ last.after_crash = "upsert"
    /\ last.changed_files = 1
    /\ \E f \in db.files : f.rel_path = "a.py" /\ f.sha256 = "f2"
    /\ Cardinality(RoutesOf(db, "a.py")) = 2

(***************************************************************************)
(* C29: when an open runs to its end on a store whose version is unset and *)
(* whose files table has a "path" column or whose routes table has a       *)
(* "file_path" column, the files table and the routes table are afterwards *)
(* keyed by rel_path and the legacy columns are gone.                      *)
(***************************************************************************)
C29_LegacyLayoutMigrated ==
    (/\ tx.pc = "idle"
     /\ last.op = "open"
     /\ last.outcome = "ok"
     /\ GetMeta(last.before) = "unset"
     /\ \/ "path" \in TableColumns(last.before, "files")
        \/ "file_path" \in TableColumns(last.before, "routes"))
        => /\ "rel_path" \in TableColumns(db, "files")
           /\ "rel_path" \in TableColumns(db, "routes")
           /\ "path" \notin TableColumns(db, "files")
           /\ "file_path" \notin TableColumns(db, "routes")

(***************************************************************************)
(* The count of snapshot_current_endpoints.  The route lists hold GET /a   *)
(* twice (once written "get"), and the two routes                          *)
(*   method "GET|/B", path "/c"   and   method "GET", path "/B|/c",        *)
(* whose endpoint ids are both the digest of "GET|/B|/c".                  *)
(***************************************************************************)
CountDecls ==
    { RouteDecl("GET", "/a", "h", 1, 2, 1),
      RouteDecl("get", "/a", "g", 3, 4, 3),
      RouteDecl("GET|/B", "/c", "h", 5, 6, 5),
      RouteDecl("GET", "/B|/c", "g", 7, 8, 7) }

CountRouteLists ==
    {rs \in SeqsUpTo(CountDecls, MaxRoutes) :
        \A i, j \in DOMAIN rs : rs[i] = rs[j] => i = j}

\* store.snapshot_current_endpoints(scan_id) for a scan id not snapshotted yet
CallFirstSnapshot(scan_id) ==
    /\ scan_id \notin snapped
    /\ CallSnapshot(scan_id)

NextCount ==
    \/ \E rs \in CountRouteLists : CallReplaceRoutes("a.py", rs, "ast")
    \/ CallCreateScan("none")
    \/ \E s \in ScanIdInputs : CallFirstSnapshot(s)

SpecCount == InitScan /\ [][NextCount]_vars

(***************************************************************************)
(* C30: the number snapshot_current_endpoints(s) returns is the number of  *)
(* distinct (method, URL path) pairs of the route table it read, and,      *)
(* after the first snapshot of s, the number of entries                    *)
(* get_scan_endpoints(s) returns.                                          *)
(***************************************************************************)
C30_SnapshotCountsEndpoints ==
    last.op = "snapshot_current_endpoints" =>
        /\ last.ret = Cardinality({<<r.method, r.http_path>> : r \in last.routes})
        /\ last.ret = Cardinality(DOMAIN GetScanEndpoints(db, last.scan_id))

(***************************************************************************)
(* Git-mode runs with the output of git diff --name-status read as         *)
(* _best_effort_git_changes reads it.  The repository has a.py, b.py and   *)
(* b.py in the directory "a.py|GET|"; a line of the output is              *)
(* <<status, path>> or, for a rename, <<status, old path, new path>>.      *)
(***************************************************************************)
NameStatusLines ==
    { <<"M", "a.py|GET|/b.py">>, <<"M", "a.py">>, <<"A", "b.py">>,
      <<"D", "a.py|GET|/b.py">>, <<"R100", "a.py", "b.py">> }

\* The outputs of one git diff: no path is named twice.
NameStatusOutputs ==
    {out \in SeqsUpTo(NameStatusLines, 2) :
        /\ out # <<>>
        /\ \A i, j \in DOMAIN out :
              i # j => Range(Tail(out[i])) \cap Range(Tail(out[j])) = {}}

\* _best_effort_git_changes: the loop over out.splitlines().
RECURSIVE BestEffortGitChanges(_)
BestEffortGitChanges(out) ==
    IF out = <<>> THEN [changed |-> {}, deleted |-> {}]
    ELSE LET parts == Head(out)
             rest == BestEffortGitChanges(Tail(out))
             status == parts[1]
         IN  IF Head(Chars(status)) = "R" /\ Len(parts) >= 3
               THEN [changed |-> rest.changed \cup {parts[3]},
                     deleted |-> rest.deleted \cup {parts[2]}]
             ELSE IF Len(parts) < 2 THEN rest
             ELSE IF status = "D"
               THEN [rest EXCEPT !.deleted = @ \cup {parts[2]}]
               ELSE [rest EXCEPT !.changed = @ \cup {parts[2]}]

InitGitFrame ==
    /\ db = EmptyDb
    /\ tx = NoTx
    /\ last = NoCall
    /\ passed = [p \in AllPaths |-> NoRoutes]
    /\ now = 0
    /\ diff = NoDiff
    /\ disk \in {dk \in [AllPaths -> {Absent} \cup [content : {"c", "f1"}, mtime_ns : {1}]] :
                   /\ dk["a.py"].content = "c"
                   /\ dk["a.py|GET|/b.py"].content = "f1"
                   /\ dk["b.py"].content \in {"absent", "f1"}}
    /\ run = Idle
    /\ prev = NoRun
    /\ edits = 0
    /\ snapped = {}
    /\ recorded = NoRecords

\* git mv: the file at one path is moved to a path where no file is.
RenameFile(old, new) ==
    /\ run.pc = "idle"
    /\ edits < MaxEdits
    /\ Exists(disk[old])
    /\ ~Exists(disk[new])
    /\ disk' = [disk EXCEPT ![old] = Absent, ![new] = disk[old]]
    /\ prev' = [prev EXCEPT !.clean = FALSE]
    /\ edits' = edits + 1
    /\ UNCHANGED <<db, tx, last, passed, now, diff, run, snapped, recorded>>

NextGitFrame ==
    \/ RunStart(FALSE, [changed |-> {}, deleted |-> {}])
    \/ \E out \in NameStatusOutputs : RunStart(TRUE, BestEffortGitChanges(out))
    \/ RunRemove
    \/ RunCheck
    \/ RunFingerprint
    \/ RunReplace
    \/ RunUpsert
    \/ RunCreateScan
    \/ RunSnapshot
    \/ \E c \in {"f1", "f2", "absent"} : EditBetweenRuns("a.py|GET|/b.py", c)
    \/ RenameFile("a.py", "b.py")

SpecGitFrame == InitGitFrame /\ [][NextGitFrame]_vars

\* What a git-mode run may write: no step changes the records of a path that
\* is in neither set, only changed candidates are extracted, and at the end
\* no deleted path has records.
GitRunFrame(paths) ==
        (run.mode = "git" /\ run.pc # "idle")
          => /\ \A p \in paths \ (run.changed \cup run.deleted) :
                   /\ GetFileStatus(db', p) = GetFileStatus(db, p)
                   /\ RoutesOf(db', p) = RoutesOf(db, p)
             /\ run.pc = "replace"
                   => Head(run.todo) \in run.changed \cap Range(run.candidates)
             /\ (run.pc = "snapshot" /\ run'.pc = "idle")
                   => \A p \in run.deleted :
                         /\ GetFileStatus(db', p) = {}
                         /\ RoutesOf(db', p) = {}

(***************************************************************************)
(* C31: no step of a git-mode run changes the file record or the routes of *)
(* a path that is neither in the changed set nor in the deleted set of the *)
(* run; the run extracts only changed paths that are candidates; and when  *)
(* it completes, no path of the deleted set has a file record or routes.   *)
(***************************************************************************)
C31_GitRunFrame == [][GitRunFrame(AllPaths)]_vars

\* The same for b.py alone: a route of a.py and a route of "a.py|GET|/b.py"
\* can have the same route id.
GitRunFrame_OtherPaths == [][GitRunFrame({"b.py"})]_vars

C33_NoOrphanedRoutes ==
    [][ (run.pc = "snapshot" /\ run'.pc = "idle" /\ run.mode = "full")
          => \A r \in db'.routes : GetFileStatus(db', r.rel_path) # {} ]_vars

(***************************************************************************)
(* The scan step of run_analyze with its except branch: create_scan or     *)
(* snapshot_current_endpoints raises (the store is locked by another       *)
(* writer, the disk is full), the transaction of the call is rolled back   *)
(* and run_analyze returns scan_id = None, written 0.                      *)
(***************************************************************************)
\* The AnalyzeResult of a run whose scan step failed.
ReturnWithoutScan ==
    /\ last' = [op |-> "run_analyze", rel_path |-> "", ret |-> 0,
                mode |-> run.mode,
                framework |-> run.framework,
                files_scanned |-> run.files_scanned,
                candidate_files |-> run.candidates,
                changed_files |-> run.changed_files,
                inserted_routes |-> run.inserted_routes,
                removed_files |-> run.removed_files,
                rerun |-> Rerun,
                after_crash |-> IF prev.crashed /\ prev.clean THEN prev.crash_pc ELSE ""]
    /\ prev' = [NoRun EXCEPT !.done = TRUE, !.mode = run.mode, !.changed = run.changed,
                             !.deleted = run.deleted, !.clean = run.clean,
                             !.crashes = prev.crashes]
    /\ run' = Idle

\* Line 190 raises: no scan row is written.
RunCreateScanFail ==
    /\ run.pc \in {"remove", "check"}
    /\ run.removes = {}
    /\ run.todo = <<>>
    /\ ReturnWithoutScan
    /\ UNCHANGED <<db, tx, passed, now, diff, disk, edits, snapped, recorded>>

\* Line 191 raises: the scan row of line 190 is committed, the snapshot rows
\* are rolled back.
RunSnapshotFail ==
    /\ run.pc = "snapshot"
    /\ ReturnWithoutScan
    /\ UNCHANGED <<db, tx, passed, now, diff, disk, edits, snapped, recorded>>

NextScanStep ==
    \/ RunStart(FALSE, [changed |-> {}, deleted |-> {}])
    \/ RunRemove
    \/ RunCheck
    \/ RunFingerprint
    \/ RunReplace
    \/ RunUpsert
    \/ RunCreateScan
    \/ RunCreateScanFail
    \/ RunSnapshot
    \/ RunSnapshotFail
    \/ \E p \in EditPaths : \E c \in CrashContents \cup {"absent"} : EditBetweenRuns(p, c)

SpecScanStep == InitCrash /\ [][NextScanStep]_vars

(***************************************************************************)
(* C34: when run_analyze returns scan_id = None the run has added no scan  *)
(* to the store; when it returns a scan id, the endpoints stored for that  *)
(* scan are those of the route table; and between runs list_scans shows no *)
(* scan whose snapshot was not written.                                    *)
(***************************************************************************)
C34_ScanStepConsistent ==
    [][ (run.pc # "idle" /\ run'.pc = "idle" /\ last'.op = "run_analyze")
          => /\ last'.ret = 0 => /\ run.scan_id = 0
                                 /\ db'.scans = db.scans
             /\ last'.ret # 0 =>
                   {e.endpoint_id : e \in
                        {x \in db'.scan_endpoints : x.scan_id = last'.ret}}
                      = {EndpointId(r.method, r.http_path) : r \in db'.routes}
             /\ \A i \in DOMAIN ListScans(db', 0 - 1) :
                   ListScans(db', 0 - 1)[i].scan_id \in snapped' ]_vars

\* The same for every return but the one after line 191 has raised.
ScanStepWithoutSnapshotFailure ==
    [][ (run.pc # "idle" /\ run'.pc = "idle" /\ last'.op = "run_analyze"
            /\ ~(run.pc = "snapshot" /\ last'.ret = 0))
          => /\ last'.ret = 0 => /\ run.scan_id = 0
                                 /\ db'.scans = db.scans
             /\ last'.ret # 0 =>
                   /\ last'.ret \in snapped'
                   /\ {e.endpoint_id : e \in
                          {x \in db'.scan_endpoints : x.scan_id = last'.ret}}
                        = {EndpointId(r.method, r.http_path) : r \in db'.routes} ]_vars

(***************************************************************************)
(* C35: right after replace_routes_for_file(p, routes, source) the number  *)
(* it returned is the number of routes the store holds for p.              *)
(***************************************************************************)
C35_ReturnsStoredCount ==
    last.op = "replace_routes_for_file" =>
        last.ret = Cardinality(RoutesOf(db, last.rel_path))

(***************************************************************************)
(* C36: when a full-mode run completes during which no file changed, the   *)
(* routes stored for every candidate file are the routes the extractor     *)
(* yields for the file's content under the framework detected in that run  *)
(* (none under a framework other than fastapi), whatever runs came before. *)
(***************************************************************************)
C36_RoutesMatchDetectedFramework ==
    [][ (run.pc = "snapshot" /\ run'.pc = "idle" /\ run.mode = "full" /\ run.clean)
          => \A p \in Range(run.candidates) :
                LET routes == IF run.framework = "fastapi"
                                THEN DedupRoutes(ExtractRoutesFromFile(disk[p]), {})
                                ELSE <<>>
                IN  {r.id : r \in RoutesOf(db', p)} =
                        {RouteId(p, routes[i]) : i \in DOMAIN routes} ]_vars

(***************************************************************************)
(* Two run_analyze calls in full mode on the same repository and the same  *)
(* store, one per process of Handles, each a sequence of store calls that  *)
(* interleaves with the other's.  tx[h] is the position of process h; its  *)
(* local variables sha, mtime_ns, size_bytes (line 147) and routes         *)
(* (lines 154-169) are read from the file before the store calls that      *)
(* write them.  run.clean tells that no file was written while a call was  *)
(* under way.                                                              *)
(***************************************************************************)
NoAnalyze ==
    [pc |-> "idle", framework |-> "", candidates |-> <<>>, removes |-> {},
     todo |-> <<>>, sha |-> "", mtime_ns |-> 0, size_bytes |-> 0,
     routes |-> <<>>, source |-> "", replace_calls |-> 0, scan_id |-> 0]

InitTwoRuns ==
    /\ db = EmptyDb
    /\ tx = [h \in Handles |-> NoAnalyze]
    /\ last = NoCall
    /\ passed = [p \in AllPaths |-> NoRoutes]
    /\ now = 0
    /\ diff = NoDiff
    /\ disk \in {dk \in [RepoPaths -> {Absent} \cup [content : CrashContents, mtime_ns : {1}]] :
                   Exists(dk["a.py"]) /\ dk["b.py"].content # "f2"}
    /\ run = [Idle EXCEPT !.clean = TRUE]
    /\ prev = NoRun
    /\ edits = 0
    /\ snapped = {}
    /\ recorded = NoRecords

Others == <<last, passed, now, diff, prev, snapped, recorded>>

\* Lines 96-117 of process h.
TwoStart(h) ==
    /\ tx[h].pc = "idle"
    /\ LET py_files == ScanPythonFiles(disk)
           framework == DetectPythonFramework(disk, py_files)
           candidates == SelectCandidateApiFiles(disk, py_files, framework)
       IN  tx' = [tx EXCEPT ![h] =
                     [NoAnalyze EXCEPT
                        !.pc = "remove",
                        !.framework = framework,
                        !.candidates = candidates,
                        !.removes = ListTrackedFiles(db) \ Range(candidates),
                        !.todo = candidates]]
    /\ UNCHANGED <<db, disk, run, edits>>
    /\ UNCHANGED Others

\* Lines 113-115.
TwoRemove(h) ==
    /\ tx[h].pc = "remove"
    /\ \E d \in tx[h].removes :
          /\ db' = RemoveFile(db, d)
          /\ tx' = [tx EXCEPT ![h].removes = @ \ {d}]
    /\ UNCHANGED <<disk, run, edits>>
    /\ UNCHANGED Others

\* Lines 137-145.
TwoCheck(h) ==
    /\ tx[h].pc \in {"remove", "check"}
    /\ tx[h].removes = {}
    /\ tx[h].todo # <<>>
    /\ LET rel_path == Head(tx[h].todo)
       IN  IF ~Exists(disk[rel_path])
             THEN /\ db' = RemoveFile(db, rel_path)
                  /\ tx' = [tx EXCEPT ![h].pc = "check", ![h].todo = Tail(@)]
             ELSE /\ db' = db
                  /\ tx' = [tx EXCEPT ![h].pc = "fingerprint"]
    /\ UNCHANGED <<disk, run, edits>>
    /\ UNCHANGED Others

\* Lines 147-152; the call ends with the exception when the file has gone.
TwoFingerprint(h) ==
    /\ tx[h].pc = "fingerprint"
    /\ LET rel_path == Head(tx[h].todo)
           f == disk[rel_path]
       IN  tx' = [tx EXCEPT ![h] =
                     IF ~Exists(f) THEN [@ EXCEPT !.pc = "done"]
                     ELSE IF SameAsRecorded(GetFileStatus(db, rel_path), f.content,
                                            f.mtime_ns, SizeBytes(f.content))
                     THEN [@ EXCEPT !.pc = "check", !.todo = Tail(@)]
                     ELSE [@ EXCEPT !.pc = "extract", !.sha = f.content,
                                    !.mtime_ns = f.mtime_ns,
                                    !.size_bytes = SizeBytes(f.content)]]
    /\ UNCHANGED <<db, disk, run, edits>>
    /\ UNCHANGED Others

\* Lines 154-169: the file is read again and its routes are extracted.
TwoExtract(h) ==
    /\ tx[h].pc = "extract"
    /\ LET rel_path == Head(tx[h].todo)
           fastapi == tx[h].framework = "fastapi"
       IN  tx' = [tx EXCEPT
                     ![h].pc = "replace",
                     ![h].routes = IF fastapi
                                     THEN DedupRoutes(ExtractRoutesFromFile(disk[rel_path]), {})
                                     ELSE <<>>,
                     ![h].source = IF fastapi THEN "ast" ELSE "unknown"]
    /\ UNCHANGED <<db, disk, run, edits>>
    /\ UNCHANGED Others

\* Line 171.
TwoReplace(h) ==
    /\ tx[h].pc = "replace"
    /\ db' = ReplaceRoutesForFile(db, Head(tx[h].todo), tx[h].routes, tx[h].source, now)
    /\ tx' = [tx EXCEPT ![h].pc = "upsert", ![h].replace_calls = @ + 1]
    /\ UNCHANGED <<disk, run, edits>>
    /\ UNCHANGED Others

\* Lines 172-180.
TwoUpsert(h) ==
    /\ tx[h].pc = "upsert"
    /\ db' = UpsertFileStatus(db, FileStatus(Head(tx[h].todo), tx[h].sha,
                                             tx[h].mtime_ns, tx[h].size_bytes, now))
    /\ tx' = [tx EXCEPT ![h].pc = "check", ![h].todo = Tail(@), ![h].routes = <<>>,
                        ![h].source = "", ![h].sha = "", ![h].mtime_ns = 0,
                        ![h].size_bytes = 0]
    /\ UNCHANGED <<disk, run, edits>>
    /\ UNCHANGED Others

\* Line 190.
TwoCreateScan(h) ==
    /\ tx[h].pc \in {"remove", "check"}
    /\ tx[h].removes = {}
    /\ tx[h].todo = <<>>
    /\ db' = CreateScan(db, now, "none")
    /\ tx' = [tx EXCEPT ![h].pc = "snapshot", ![h].scan_id = db.seq + 1]
    /\ UNCHANGED <<disk, run, edits>>
    /\ UNCHANGED Others

\* Lines 191-207.
TwoSnapshot(h) ==
    /\ tx[h].pc = "snapshot"
    /\ \E rows \in ListRoutesAll(db, SnapshotLimit) :
          db' = ExecAll(db, SnapshotStmts(rows, tx[h].scan_id))
    /\ tx' = [tx EXCEPT ![h].pc = "done"]
    /\ UNCHANGED <<disk, run, edits>>
    /\ UNCHANGED Others

\* A file of the repository is written, created or deleted.
TwoEdit(rel_path, content) ==
    /\ edits < MaxEdits
    /\ disk[rel_path].content # content
    /\ \E m \in Mtimes :
          /\ m # disk[rel_path].mtime_ns
          /\ disk' = [disk EXCEPT ![rel_path] =
                         IF content = "absent" THEN Absent
                         ELSE [content |-> content, mtime_ns |-> m]]
    /\ run' = [run EXCEPT !.clean = @ /\ \A h \in Handles : tx[h].pc \in {"idle", "done"}]
    /\ edits' = edits + 1
    /\ UNCHANGED <<db, tx>>
    /\ UNCHANGED Others

NextTwoRuns ==
    \/ \E h \in Handles :
          \/ TwoStart(h)
          \/ TwoRemove(h)
          \/ TwoCheck(h)
          \/ TwoFingerprint(h)
          \/ TwoExtract(h)
          \/ TwoReplace(h)
          \/ TwoUpsert(h)
          \/ TwoCreateScan(h)
          \/ TwoSnapshot(h)
    \/ \E p \in EditPaths : \E c \in CrashContents \cup {"absent"} : TwoEdit(p, c)

SpecTwoRuns == InitTwoRuns /\ [][NextTwoRuns]_vars

\* Both calls have returned.
BothDone == \A h \in Handles : tx[h].pc = "done"

\* The routes stored for every tracked file are the routes of the content
\* whose hash is stored for it.
SameVersion ==
    \A f \in db.files :
        LET routes == DedupRoutes(ExtractRoutesFromFile([content |-> f.sha256]), {})
        IN  {r.id : r \in RoutesOf(db, f.rel_path)} =
                {RouteId(f.rel_path, routes[i]) : i \in DOMAIN routes}

\* A later run extracts again every tracked file whose stored routes are not
\* the routes of its content: the stored hash is not the hash of the content.
StaleIsDetected ==
    \A f \in db.files :
        LET file == disk[f.rel_path]
            routes == DedupRoutes(ExtractRoutesFromFile(file), {})
        IN  (/\ Exists(file)
             /\ {r.id : r \in RoutesOf(db, f.rel_path)} #
                    {RouteId(f.rel_path, routes[i]) : i \in DOMAIN routes})
               => f.sha256 # file.content

(***************************************************************************)
(* C37: after two interleaved runs have finished, the hash and the routes  *)
(* stored for every tracked file are those of one version of its content,  *)
(* so that a file whose stored routes are not the routes of its current    *)
(* content has a stored hash that differs from the hash of that content.   *)
(***************************************************************************)
C37_InterleavedRunsConsistent == BothDone => StaleIsDetected

\* The stored hash and routes are those of one version when no file of the
\* repository was written while one of the two runs was under way.
InterleavedRunsOnStillFiles == (BothDone /\ run.clean) => SameVersion

(***************************************************************************)
(* diff_scans in both directions.  The snapshots of SpecSwap hold GET /a   *)
(* and the two endpoints whose id is the digest of "GET|/B|/c":            *)
(*   method "GET|/B", path "/c"   and   method "GET", path "/B|/c",        *)
(* which add_api_route("/c", h, methods=["GET|/B"]) and                    *)
(* @app.get("/B|/c") declare.                                              *)
(***************************************************************************)
SwapRows(scan_id) ==
    { EndpointRow(scan_id, "GET", "/a", "a.py", "h", 1, "ast"),
      EndpointRow(scan_id, "GET", "/a", "a.py", "g", 1, "ast"),
      EndpointRow(scan_id, "GET", "/a", "b.py", "h", 1, "ast"),
      EndpointRow(scan_id, "GET|/B", "/c", "a.py", "h", 5, "ast"),
      EndpointRow(scan_id, "GET", "/B|/c", "a.py", "g", 7, "ast"),
      EndpointRow(scan_id, "GET", "/B|/c", "b.py", "g", 7, "ast") }

SwapSnapshots(scan_id) ==
    {S \in SUBSET SwapRows(scan_id) :
        \A x, y \in S : x.endpoint_id = y.endpoint_id => x = y}

InitSwap ==
    /\ \E A \in SwapSnapshots(1), B \in SwapSnapshots(2), O \in OrphanSnapshots :
          db = [EmptyDb EXCEPT
                  !.scans = {[scan_id |-> 1, created_at |-> 0, git_commit |-> "none"],
                             [scan_id |-> 2, created_at |-> 0, git_commit |-> "none"]},
                  !.seq = 2,
                  !.scan_endpoints = A \cup B \cup O]
    /\ tx = NoTx
    /\ last = NoCall
    /\ passed = [p \in AllPaths |-> NoRoutes]
    /\ now = 0
    /\ diff = NoDiff
    /\ disk = NoDisk
    /\ run = Idle
    /\ prev = NoRun
    /\ edits = 0
    /\ snapped = {}
    /\ recorded = NoRecords

SpecSwap == InitSwap /\ [][NextDiff]_vars

\* An entry of moved / handler_changed with from and to exchanged.
SwappedMoved(e) ==
    [e EXCEPT !.from_rel_path = e.to_rel_path, !.to_rel_path = e.from_rel_path,
              !.from_handler = e.to_handler, !.to_handler = e.from_handler]

SwappedChanged(e) ==
    [e EXCEPT !.from_handler = e.to_handler, !.to_handler = e.from_handler]

Antisymmetric(forth, back) ==
    /\ IdsOfList(forth.added) = IdsOfList(back.removed)
    /\ IdsOfList(forth.removed) = IdsOfList(back.added)
    /\ Range(back.moved) = {SwappedMoved(e) : e \in Range(forth.moved)}
    /\ Range(back.handler_changed) =
          {SwappedChanged(e) : e \in Range(forth.handler_changed)}

EmptyDiff == [added |-> <<>>, removed |-> <<>>, moved |-> <<>>, handler_changed |-> <<>>]

(***************************************************************************)
(* C38: for any scan ids A and B, the ids of diff_scans(A, B).added are    *)
(* those of diff_scans(B, A).removed and the other way round, the moved    *)
(* and handler_changed entries of diff_scans(B, A) are those of            *)
(* diff_scans(A, B) with from and to exchanged, and diff_scans(A, A) is    *)
(* four empty lists.                                                       *)
(***************************************************************************)
C38_DiffAntisymmetric ==
    diff.called =>
        /\ Antisymmetric(diff.result, DiffScans(db, diff.to, diff.from))
        /\ diff.from = diff.to => diff.result = EmptyDiff

\* No two rows of scan_endpoints with one endpoint id differ in method or path.
IdsNameOnePair ==
    \A x, y \in db.scan_endpoints :
        x.endpoint_id = y.endpoint_id => x.method = y.method /\ x.http_path = y.http_path

\* The same relation between the two directions when every endpoint id
\* stands for one (method, path) pair.
AntisymmetricOnInjectiveIds ==
    IdsNameOnePair => C38_DiffAntisymmetric

(***************************************************************************)
(* The test generator (src/sydes/testgen): normalize_routes turns route    *)
(* rows into EndpointSpecs, build_test_plan groups EndpointSpecs into test *)
(* files and names the tests.  Both are pure; `last` holds the last call.  *)
(***************************************************************************)
MaxRows == 3        \* longest list of route rows passed to normalize_routes

\* The route rows of the model.  The first two differ in spelling and in
\* their source tag only; the fifth has no method and no handler.
TestgenRows ==
    { [method |-> "get", http_path |-> "/a", handler_name |-> "h",
       rel_path |-> "b.py", source |-> "ast"],
      [method |-> "GET", http_path |-> "a/", handler_name |-> "h",
       rel_path |-> "./b.py", source |-> "regex"],
      [method |-> "GET", http_path |-> "/a/2", handler_name |-> "g",
       rel_path |-> "b.py", source |-> "ast"],
      [method |-> "GET", http_path |-> "/a", handler_name |-> "g",
       rel_path |-> "b.py", source |-> "ast"],
      [method |-> "", http_path |-> "/a", handler_name |-> "",
       rel_path |-> "B.py", source |-> "ast"],
      [method |-> "GET", http_path |-> "/a", handler_name |-> "h",
       rel_path |-> "B__18225e.py", source |-> "ast"] }

\* str.lower() on the method strings of the model.
Lower(s) ==
    CASE s = "GET" -> "get"
      [] s = "POST" -> "post"
      [] OTHER -> s

\* _normalize_file_path: strip, backslashes to slashes, a leading "./" dropped.
NormalizeFilePath(p) ==
    CASE p = "./b.py" -> "b.py"
      [] OTHER -> p

\* _normalize_path: strip, a leading "/" added, <id> and :id to {id}, repeated
\* slashes collapsed, a trailing slash dropped.
NormalizePath(path) ==
    CASE path = "a/" -> "/a"
      [] OTHER -> path

\* "_".join of the segments of path.strip("/").split("/"), or "root".
PathTokens(path) ==
    CASE path = "/a" -> "a"
      [] path = "/a/2" -> "a_2"
      [] OTHER -> "root"

\* _fallback_handler
FallbackHandler(method, path) == Lower(method) \o "_" \o PathTokens(path)

\* The EndpointSpec normalize_routes builds from one row.
EndpointSpec(r, framework) ==
    LET m == IF Upper(r.method) = "" THEN "GET" ELSE Upper(r.method)
        path == NormalizePath(r.http_path)
        file_path == NormalizeFilePath(r.rel_path)
        handler == IF r.handler_name = "" THEN FallbackHandler(m, path)
                   ELSE r.handler_name
    IN  [id |-> m \o ":" \o path \o ":" \o file_path \o ":" \o handler,
         method |-> m,
         path |-> path,
         handler |-> handler,
         file_path |-> file_path,
         framework |-> framework,
         source |-> IF r.source = "" THEN "unknown" ELSE r.source]

\* The comparison of the sort keys (s.file_path, s.path, s.method, s.handler, s.id).
SpecKeyLess(s, t) ==
    \/ StrRank(s.file_path) < StrRank(t.file_path)
    \/ /\ s.file_path = t.file_path
       /\ \/ StrRank(s.path) < StrRank(t.path)
          \/ /\ s.path = t.path
             /\ \/ StrRank(s.method) < StrRank(t.method)
                \/ /\ s.method = t.method
                   /\ \/ StrRank(s.handler) < StrRank(t.handler)
                      \/ /\ s.handler = t.handler
                         /\ Sha1Rank(s.id) < Sha1Rank(t.id)

\* list.sort(key=...): a stable sort, elements with equal keys keep their order.
RECURSIVE InsertSpec(_, _)
InsertSpec(sorted, x) ==
    IF sorted = <<>> THEN <<x>>
    ELSE IF SpecKeyLess(x, Head(sorted)) THEN <<x>> \o sorted
    ELSE <<Head(sorted)>> \o InsertSpec(Tail(sorted), x)

RECURSIVE SortSpecs(_)
SortSpecs(list) ==
    IF list = <<>> THEN <<>>
    ELSE InsertSpec(SortSpecs(SubSeq(list, 1, Len(list) - 1)), list[Len(list)])

\* normalize_routes(rows, framework)
NormalizeRoutes(rows, framework) ==
    SortSpecs([i \in DOMAIN rows |-> EndpointSpec(rows[i], framework)])

CallNormalizeRoutes(rows) ==
    /\ last' = [op |-> "normalize_routes", rows |-> rows,
                ret |-> NormalizeRoutes(rows, "fastapi")]
    /\ UNCHANGED <<db, tx, passed, now, diff, disk, run, prev, edits, snapped, recorded>>


Perms(n) == {f \in [1..n -> 1..n] : \A i, j \in 1..n : f[i] = f[j] => i = j}

Permuted(list, f) == [i \in DOMAIN list |-> list[f[i]]]

(***************************************************************************)
(* C39: the sequence normalize_routes returns is the same for every        *)
(* permutation of the rows it is given, and is in ascending order of       *)
(* (file path, path, method, handler, id).                                 *)
(***************************************************************************)
C39_NormalizeOrderIndependent ==
    last.op = "normalize_routes" =>
        /\ \A f \in Perms(Len(last.rows)) :
              NormalizeRoutes(Permuted(last.rows, f), "fastapi") = last.ret
        /\ \A i, j \in DOMAIN last.ret : i < j => ~SpecKeyLess(last.ret[j], last.ret[i])

\* No two of the rows normalise to specs that have one sort key and differ.
KeysTellSpecsApart(rows) ==
    \A i, j \in DOMAIN rows :
        LET s == EndpointSpec(rows[i], "fastapi")
            t == EndpointSpec(rows[j], "fastapi")
        IN  (~SpecKeyLess(s, t) /\ ~SpecKeyLess(t, s)) => s = t

\* The same for the row lists whose specs the sort key tells apart.
OrderIndependentOnDistinctKeys ==
    (last.op = "normalize_routes" /\ KeysTellSpecsApart(last.rows))
        => C39_NormalizeOrderIndependent

(***************************************************************************)
(* build_test_plan.                                                        *)
(***************************************************************************)
\* s.file_path or "unknown"
ModuleKey(s) == IF s.file_path = "" THEN "unknown" ELSE s.file_path

\* sorted(by_module.keys())
RECURSIVE SortedKeys(_)
SortedKeys(keys) ==
    IF keys = {} THEN <<>>
    ELSE LET m == CHOOSE x \in keys : \A y \in keys : StrRank(x) <= StrRank(y)
         IN  <<m>> \o SortedKeys(keys \ {m})

\* The comparison of the sort keys (e.path, e.method, e.handler, e.id).
EndpointKeyLess(s, t) ==
    \/ StrRank(s.path) < StrRank(t.path)
    \/ /\ s.path = t.path
       /\ \/ StrRank(s.method) < StrRank(t.method)
          \/ /\ s.method = t.method
             /\ \/ StrRank(s.handler) < StrRank(t.handler)
                \/ /\ s.handler = t.handler
                   /\ Sha1Rank(s.id) < Sha1Rank(t.id)

\* endpoints.sort(key=...): stable.
RECURSIVE InsertEndpoint(_, _)
InsertEndpoint(sorted, x) ==
    IF sorted = <<>> THEN <<x>>
    ELSE IF EndpointKeyLess(x, Head(sorted)) THEN <<x>> \o sorted
    ELSE <<Head(sorted)>> \o InsertEndpoint(Tail(sorted), x)

RECURSIVE SortEndpoints(_)
SortEndpoints(list) ==
    IF list = <<>> THEN <<>>
    ELSE InsertEndpoint(SortEndpoints(SubSeq(list, 1, Len(list) - 1)), list[Len(list)])

\* _stem_from_file_path: the base name without ".py", the characters outside
\* [a-zA-Z0-9_] replaced, in lower case.
StemFromFilePath(file_path) ==
    CASE file_path = "b.py" -> "b"
      [] file_path = "B.py" -> "b"
      [] file_path = "B__18225e.py" -> "b__18225e"
      [] OTHER -> "api"

\* _sha1_short: the first six hex digits of the real SHA-1 digests.
Sha1Short(text) ==
    CASE text = "b.py" -> "18225e"
      [] text = "B.py" -> "0006bc"
      [] text = "B__18225e.py" -> "09619f"
      [] OTHER -> "000000"

\* _test_name: for the paths of the model the body is the joined segments.
TestName(method, path) == "test_" \o Lower(method) \o "_" \o PathTokens(path)

\* f"test_{stem}.py"
PlainFilename(module_key) == "test_" \o StemFromFilePath(module_key) \o ".py"

\* f"test_{stem}__{_sha1_short(module_key)}.py"
HashedFilename(module_key) ==
    "test_" \o StemFromFilePath(module_key) \o "__" \o Sha1Short(module_key) \o ".py"

\* The file name of a module, given used_filenames.
Filename(module_key, used) ==
    IF /\ PlainFilename(module_key) \in DOMAIN used
       /\ used[PlainFilename(module_key)] # module_key
    THEN HashedFilename(module_key)
    ELSE PlainFilename(module_key)

\* The inner loop: the k-th endpoint is the counts[base]-th of its base name.
PlanEndpoints(endpoints) ==
    [k \in DOMAIN endpoints |->
        LET e == endpoints[k]
            base == TestName(e.method, e.path)
            count == Cardinality({j \in 1..k :
                        TestName(endpoints[j].method, endpoints[j].path) = base})
        IN  [endpoint_id |-> e.id,
             test_name |-> IF count = 1 THEN base ELSE base \o "_" \o ToString(count),
             method |-> e.method,
             path |-> e.path]]

\* The loop over module_keys.
RECURSIVE PlanFiles(_, _, _, _)
PlanFiles(module_keys, used, specs, generated_root) ==
    IF module_keys = <<>> THEN <<>>
    ELSE LET module_key == Head(module_keys)
             endpoints ==
                 SortEndpoints(SelectSeq(specs, LAMBDA s : ModuleKey(s) = module_key))
             filename == Filename(module_key, used)
         IN  << [rel_path |-> generated_root \o "/" \o filename,
                 module_key |-> module_key,
                 endpoints |-> PlanEndpoints(endpoints)] >>
             \o PlanFiles(Tail(module_keys),
                          [f \in DOMAIN used \cup {filename} |->
                              IF f = filename THEN module_key ELSE used[f]],
                          specs, generated_root)

\* build_test_plan(specs, generated_root)
BuildTestPlan(specs, generated_root) ==
    [generated_root |-> generated_root,
     files |-> PlanFiles(SortedKeys({ModuleKey(specs[i]) : i \in DOMAIN specs}),
                         <<>>, specs, generated_root)]

\* build_test_plan on the specs of a list of rows, in any order.
CallBuildTestPlan(rows) ==
    /\ last' = [op |-> "build_test_plan", rows |-> rows,
                ret |-> BuildTestPlan([i \in DOMAIN rows |->
                                          EndpointSpec(rows[i], "fastapi")],
                                      "tests/generated")]
    /\ UNCHANGED <<db, tx, passed, now, diff, disk, run, prev, edits, snapped, recorded>>

NextTestgen ==
    \E rows \in SeqsUpTo(TestgenRows, MaxRows) :
        \/ CallNormalizeRoutes(rows)
        \/ CallBuildTestPlan(rows)

SpecTestgen == InitScan /\ [][NextTestgen]_vars

DistinctFiles(plan) ==
    \A i, j \in DOMAIN plan.files :
        plan.files[i].rel_path = plan.files[j].rel_path => i = j

DistinctNames(plan) ==
    \A f \in DOMAIN plan.files :
        \A i, j \in DOMAIN plan.files[f].endpoints :
            plan.files[f].endpoints[i].test_name = plan.files[f].endpoints[j].test_name
                => i = j

(***************************************************************************)
(* C40: in the plan build_test_plan returns no two TestFilePlans have one  *)
(* rel_path, and within a TestFilePlan no two endpoints have one test_name.*)
(***************************************************************************)
C40_PlanNamesDistinct ==
    last.op = "build_test_plan" =>
        /\ DistinctFiles(last.ret)
        /\ DistinctNames(last.ret)

\* No plain file name of a module is the hashed file name of another, and no
\* base test name of an endpoint is the numbered name of another base.
NoLookalikes(specs) ==
    /\ \A i, j \in DOMAIN specs :
          PlainFilename(ModuleKey(specs[i])) # HashedFilename(ModuleKey(specs[j]))
    /\ \A i, j \in DOMAIN specs : \A n \in 2..Len(specs) :
          TestName(specs[i].method, specs[i].path)
              # TestName(specs[j].method, specs[j].path) \o "_" \o ToString(n)

\* Colliding stems and colliding base names get distinct names when no name
\* looks like the renamed form of another.
DistinctWithoutLookalikes ==
    (/\ last.op = "build_test_plan"
     /\ NoLookalikes([i \in DOMAIN last.rows |-> EndpointSpec(last.rows[i], "fastapi")]))
        => C40_PlanNamesDistinct

=============================================================================
